---- MODULE Spec2Model ----
(***************************************************************************)
(* State-machine model of the strategic decision layer of foul-play:       *)
(* OpponentModel, TimeManager, RiskRewardAnalyzer, the position            *)
(* criticality multiplier and the MCTS policy blender.                     *)
(*                                                                         *)
(* Python floats are modelled as exact rationals <<n, d>> (d > 0, lowest   *)
(* terms); every comparison the code makes is made on the exact value.     *)
(***************************************************************************)
EXTENDS Integers, Sequences, FiniteSets, TLC

VARIABLES
    \* ---- OpponentModel (src/fp/strategy/opponent_model.py) ----
    om_stats,               \* OpponentBehaviorStats counters
    om_sack_turns,          \* stats.sack_turns
    om_last_recorded_turn,  \* OpponentModel.last_recorded_turn
    om_turn_history,        \* OpponentModel.turn_history
    om_pokemon_logs,        \* OpponentModel.pokemon_logs
    om_pending_sacks,       \* OpponentModel.pending_sacks
    om_fainted_pokemon,     \* OpponentModel.fainted_pokemon
    om_sack_events,         \* OpponentModel.sack_events
    om_double_switch_history, \* OpponentModel.double_switch_history
    om_tera_record,         \* OpponentModel.tera_record
    om_call,                \* the latest observe_turn call: its number and battle turn
    \* ---- TimeManager (src/fp/strategy/time_manager.py) ----
    tm_bank_ms,             \* TimeManager.bank_ms
    tm_last_time_allocation, \* TimeManager.last_time_allocation
    tm_high_leverage_turn,  \* TimeManager.high_leverage_turn
    tm_allocation_history,  \* TimeManager.allocation_history
    tm_call,                \* the latest TimeManager call: number, operation, inputs, result
    \* ---- calculate_position_criticality (src/fp/search/main.py) ----
    crit_in,                \* the battle and position metrics of the call
    crit_out,               \* the multiplier returned
    crit_pc,                \* "start" before the call, "done" after it
    \* ---- RiskRewardAnalyzer (src/fp/strategy/risk.py) ----
    ra_turn_cache,          \* RiskRewardAnalyzer.turn_cache: move -> MoveRiskProfile
    ra_computed_turn,       \* the battle turn on which each cached profile was computed
    ra_damage_queries,      \* number of poke_engine_get_damage_rolls calls made so far
    ra_ret,                 \* the mapping the latest evaluate_moves call returned
    ra_call,                \* the latest evaluate_moves call: number, turn, candidates
    rb,                     \* the battle the analyzer is called on
    \* ---- StrategicContext, select_move_from_mcts_results ----
    sc_last_position_metrics, \* StrategicContext.last_position_metrics
    wc_do_not_sack,         \* WinConditionTracker.do_not_sack
    sel_battle,             \* what else the selector reads off the battle
    sel_in,                 \* arguments of the select_move_from_mcts_results call
    sel_out,                \* what the call returned
    sel_pc,                 \* "idle", "ready" or "done"
    pol_in,                 \* arguments of a call of choose_policy_move
    pol_out,                \* what the call returned
    pol_pc,                 \* "idle", "ready" or "done"
    ohko_in,                \* battle and budget handed to check_ohko_risk
    ohko_out,               \* what the call returned
    ohko_pc,                \* "idle", "ready" or "done"
    tp_in,                  \* arguments of a call of optimize_team_preview_order
    tp_out,                 \* what the call returned
    tp_pc,                  \* "idle", "ready" or "done"
    sc_preview_report,      \* StrategicContext.preview_report
    hz_in,                  \* the switch whose hazard cost is estimated
    hz_out,                 \* what the call returned
    hz_pc,                  \* "idle", "ready" or "done"
    pe_in,                  \* arguments of a call of get_position_metrics
    pe_out,                 \* what the call returned
    pe_pc,                  \* "idle", "ready" or "done"
    xp_in,                  \* arguments of a call of ExperienceTracker.record_turn
    xp_out,                 \* what the call returned
    xp_pc,                  \* "idle", "ready", "recorded" or "done"
    xp_log,                 \* lines of data/experience_log.jsonl
    \* ---- find_best_move (src/fp/search/main.py), one call per turn ----
    turn_pc,                \* "idle", "start", "observed", "allocated" or "checked"
    turn_clock,             \* battle.time_remaining of the battle of this call
    turn_writes,            \* the operations that assigned bank_ms during this call
    \* ---- the search dispatch of find_best_move (src/fp/search/main.py) ----
    disp_pc,                \* "idle", "submitting", "collecting" or "done"
    disp_battles,           \* the determinizations prepared for this turn, with their sample chances
    disp_budget,            \* search_time_per_battle
    disp_futures,           \* the submitted search tasks, in submission order
    disp_finished,          \* indices of the tasks that have completed, in completion order
    disp_results,           \* mcts_results, as far as collected
    disp_policy,            \* the aggregated policy handed to move selection
    \* ---- the strategic-context handle of find_best_move (src/fp/search/main.py) ----
    ctx_pc,                 \* "idle", "call", "entered" or "updated"
    ctx_n,                  \* number of find_best_move calls begun on the match
    ctx_caller,             \* the handle on the caller's battle object; 0 is no strategic_context
    ctx_local,              \* the handle find_best_move works on
    ctx_heap,               \* the StrategicContext objects that exist, by handle
    ctx_left,               \* the context state the previous call of the match finished with
    \* ---- sack tracking (fp/strategy/opponent_model.py, the battle last observed) ----
    sk_observed,            \* the battle handed to the last observe_turn call, NoObservation before it
    \* ---- WinConditionTracker (fp/strategy/wincon.py) ----
    wct_call,               \* the last tracker call: its number, operation and battle
    wct_primary,            \* WinConditionTracker.primary
    wct_backup,             \* WinConditionTracker.backup
    wct_critical_targets,   \* WinConditionTracker.critical_targets
    wct_predicted_threats,  \* WinConditionTracker.predicted_threats
    wct_report,             \* the dict returned by the last evaluate call, NoCall before it
    wct_threat_log          \* the units ingested with a threat score above 0.4 since the last reset

om_vars == <<om_stats, om_sack_turns, om_last_recorded_turn, om_turn_history,
             om_pokemon_logs, om_pending_sacks, om_fainted_pokemon, om_sack_events,
             om_double_switch_history, om_tera_record, om_call>>

tm_vars == <<tm_bank_ms, tm_last_time_allocation, tm_high_leverage_turn,
             tm_allocation_history, tm_call>>

crit_vars == <<crit_in, crit_out, crit_pc>>

ra_vars == <<ra_turn_cache, ra_computed_turn, ra_damage_queries, ra_ret, ra_call, rb>>

sel_vars == <<sc_last_position_metrics, wc_do_not_sack, sel_battle, sel_in, sel_out, sel_pc>>

pol_vars == <<pol_in, pol_out, pol_pc>>

ohko_vars == <<ohko_in, ohko_out, ohko_pc>>

tp_vars == <<tp_in, tp_out, tp_pc, sc_preview_report>>

hz_vars == <<hz_in, hz_out, hz_pc>>

pe_vars == <<pe_in, pe_out, pe_pc>>

xp_vars == <<xp_in, xp_out, xp_pc, xp_log>>

heur_vars == <<pol_vars, ohko_vars, tp_vars, hz_vars, pe_vars, xp_vars>>

turn_vars == <<turn_pc, turn_clock, turn_writes>>

disp_vars == <<disp_pc, disp_battles, disp_budget, disp_futures, disp_finished, disp_results, disp_policy>>

ctx_vars == <<ctx_pc, ctx_n, ctx_caller, ctx_local, ctx_heap, ctx_left>>

sk_vars == <<sk_observed>>

wct_vars == <<wct_call, wct_primary, wct_backup, wct_critical_targets, wct_predicted_threats, wct_report, wct_threat_log>>

orch_vars == <<turn_vars, disp_vars, ctx_vars, sk_vars, wct_vars>>

vars == <<om_vars, tm_vars, crit_vars, ra_vars, sel_vars, heur_vars, orch_vars>>

(***************************************************************************)
(* Exact rational arithmetic.                                              *)
(***************************************************************************)
Abs(x) == IF x < 0 THEN -x ELSE x

RECURSIVE GCD(_, _)
GCD(a, b) == IF b = 0 THEN a ELSE GCD(b, a % b)

Rat(n, d) ==
    LET s == IF d < 0 THEN -1 ELSE 1
        g == GCD(Abs(n), Abs(d))
    IN  IF n = 0 THEN <<0, 1>> ELSE <<(s * n) \div g, (s * d) \div g>>

RInt(n)     == <<n, 1>>
\* sums and products cancel common factors first, to keep the terms small
RAdd(a, b)  ==
    LET g == GCD(a[2], b[2])
    IN  Rat(a[1] * (b[2] \div g) + b[1] * (a[2] \div g), (a[2] \div g) * b[2])
RNeg(a)     == <<-a[1], a[2]>>
RSub(a, b)  == RAdd(a, RNeg(b))
RMul(a, b)  ==
    IF a[1] = 0 \/ b[1] = 0 THEN <<0, 1>>
    ELSE LET g1 == GCD(Abs(a[1]), b[2])
             g2 == GCD(Abs(b[1]), a[2])
         IN  <<(a[1] \div g1) * (b[1] \div g2), (a[2] \div g2) * (b[2] \div g1)>>
RDiv(a, b)  == RMul(a, IF b[1] < 0 THEN <<-b[2], -b[1]>> ELSE <<b[2], b[1]>>)
RLe(a, b)   ==
    LET g == GCD(a[2], b[2]) IN a[1] * (b[2] \div g) <= b[1] * (a[2] \div g)
RLt(a, b)   == ~RLe(b, a)
RMin(a, b)  == IF RLe(a, b) THEN a ELSE b
RMax(a, b)  == IF RLe(a, b) THEN b ELSE a
\* int(x) for x >= 0
RFloor(a)   == a[1] \div a[2]

RECURSIVE RProdSeq(_)
RProdSeq(s) == IF s = <<>> THEN RInt(1) ELSE RMul(Head(s), RProdSeq(Tail(s)))

RECURSIVE RSumSeq(_)
RSumSeq(s) == IF s = <<>> THEN RInt(0) ELSE RAdd(Head(s), RSumSeq(Tail(s)))

(***************************************************************************)
(* OpponentModel                                                           *)
(***************************************************************************)
\* None where a turn number is expected (turn numbers start at 1)
NoTurn == 0
NoUnit == "none"
NoMove == "none"

\* bound on the battle's turn counter and on the number of observe_turn calls
MaxTurn == 3
MaxObserveCalls == 2

Turns == 1..MaxTurn
OppUnits == {"p1", "p2"}

\* all_move_json entries of the moves the opponent is seen to use
MoveData(move_name) ==
    CASE move_name = "tackle"    -> [category |-> "physical", accuracy |-> 100]
      [] move_name = "hydropump" -> [category |-> "special",  accuracy |-> 80]
      [] move_name = "toxic"     -> [category |-> "status",   accuracy |-> 90]
      [] OTHER                   -> [category |-> "unknown",  accuracy |-> 100]

IsSwitch(move_name) == move_name \in {"switch p1", "switch p2", "switch 2"}

_categorize_move(move_name) ==
    IF IsSwitch(move_name)
    THEN [category |-> "switch", accuracy |-> 100, is_risky |-> FALSE]
    ELSE [category |-> MoveData(move_name).category,
          accuracy |-> MoveData(move_name).accuracy,
          is_risky |-> MoveData(move_name).accuracy < 90]

\* The battle states handed to observe_turn.  Every opposing unit is in the
\* roster (active or reserve) with max_hp 100.
OppHpLevels == {0, 20, 40, 60}
OppLastMoves == {NoMove, "tackle", "hydropump", "toxic", "switch p2"}
UserLastMoves == {NoMove, "tackle", "switch 2"}

\* what the two sides did last: the opponent's move, the user's move, whether
\* both were made on the same turn, and whether the resulting matchup favours
\* the opponent by more than the 0.1 margin (_assess_double_switch)
LastMoveInputs ==
    {m \in [opp_last_move : OppLastMoves, user_last_move : UserLastMoves,
            same_move_turn : BOOLEAN, ds_delta_high : BOOLEAN] :
        /\ m.ds_delta_high => (m.same_move_turn /\ IsSwitch(m.opp_last_move)
                                  /\ IsSwitch(m.user_last_move))
        /\ m.same_move_turn => m.user_last_move # NoMove
        /\ m.opp_last_move = NoMove => m.user_last_move = NoMove}

ObservedBattles ==
    {b \in [turn : Turns,
            opp_active : OppUnits \cup {NoUnit},
            opp_hp : [OppUnits -> OppHpLevels],
            opp_max_hp : {100},
            opp_terastallized : BOOLEAN,
            opp_last_move : OppLastMoves,
            user_last_move : UserLastMoves,
            same_move_turn : BOOLEAN,
            ds_delta_high : BOOLEAN] :
        /\ [opp_last_move |-> b.opp_last_move, user_last_move |-> b.user_last_move,
            same_move_turn |-> b.same_move_turn, ds_delta_high |-> b.ds_delta_high]
              \in LastMoveInputs
        /\ b.opp_terastallized => b.opp_active # NoUnit}

\* roster = [active] + reserve
Roster(b) ==
    IF b.opp_active = NoUnit
    THEN <<"p1", "p2">>
    ELSE <<b.opp_active>> \o (IF b.opp_active = "p1" THEN <<"p2">> ELSE <<"p1">>)

\* step 1 of _update_sack_state: open a window for a low active unit
SackOpen(pending, b) ==
    LET a == b.opp_active IN
    IF a # NoUnit /\ b.opp_hp[a] > 0 /\ b.opp_max_hp # 0
       /\ b.opp_hp[a] * 4 <= b.opp_max_hp /\ pending[a] = NoTurn
    THEN [pending EXCEPT ![a] = b.turn]
    ELSE pending

\* step 2: discard the windows of units back above 50%
SackRecover(pending, b) ==
    [u \in OppUnits |->
        IF pending[u] # NoTurn /\ b.opp_max_hp # 0 /\ b.opp_hp[u] * 2 > b.opp_max_hp
        THEN NoTurn ELSE pending[u]]

\* step 3: every newly fainted roster unit is recorded as a sack event
RECURSIVE SackFaint(_, _, _)
SackFaint(st, roster, b) ==
    IF roster = <<>> THEN st
    ELSE LET u == Head(roster) IN
         IF b.opp_hp[u] > 0 \/ u \in st.fainted
         THEN SackFaint(st, Tail(roster), b)
         ELSE LET start == st.pending[u]
                  duration == IF start # NoTurn THEN b.turn - start ELSE 0
              IN SackFaint(
                   [pending |-> [st.pending EXCEPT ![u] = NoTurn],
                    fainted |-> st.fainted \cup {u},
                    events  |-> Append(st.events,
                                  [pokemon |-> u, turn |-> b.turn, duration |-> duration]),
                    sacks   |-> st.sacks + 1,
                    sack_turns |-> Append(st.sack_turns, b.turn)],
                   Tail(roster), b)

\* the variant that forgets which units were already seen fainted
_update_sack_state_recounting(b) ==
    SackFaint([pending |-> SackRecover(SackOpen(om_pending_sacks, b), b),
               fainted |-> {},
               events  |-> om_sack_events,
               sacks   |-> om_stats.sacks,
               sack_turns |-> om_sack_turns],
              Roster(b), b)

_update_sack_state(b) ==
    SackFaint([pending |-> SackRecover(SackOpen(om_pending_sacks, b), b),
               fainted |-> om_fainted_pokemon,
               events  |-> om_sack_events,
               sacks   |-> om_stats.sacks,
               sack_turns |-> om_sack_turns],
              Roster(b), b)

\* the idempotency guard of observe_turn
AlreadyRecorded(b) == b.turn = om_last_recorded_turn

NoTera == [pokemon |-> NoUnit, type |-> "none", turn |-> NoTurn]

FreshLog == [moves_revealed |-> {}, tera_type |-> "none", tera_turn |-> NoTurn,
             last_seen_turn |-> NoTurn, created |-> FALSE]

IsDoubleSwitch(b) ==
    /\ b.user_last_move # NoMove
    /\ IsSwitch(b.opp_last_move)
    /\ IsSwitch(b.user_last_move)
    /\ b.same_move_turn

ObserveTurn(b) ==
    /\ om_call.n < MaxObserveCalls
    /\ om_call.turn = NoTurn \/ om_call.turn <= b.turn
    /\ om_call' = [n |-> om_call.n + 1, turn |-> b.turn]
    /\ IF AlreadyRecorded(b)
       THEN UNCHANGED <<om_stats, om_sack_turns, om_last_recorded_turn, om_turn_history,
                        om_pokemon_logs, om_pending_sacks, om_fainted_pokemon,
                        om_sack_events, om_double_switch_history, om_tera_record>>
       ELSE
         LET sk == _update_sack_state(b)
             info == _categorize_move(b.opp_last_move)
             ds == IsDoubleSwitch(b)
             aggressive == info.category \in {"physical", "special"}
             \* last_used_move.pokemon_name is unset: the active unit's name is used
             seen == b.opp_active
             logs1 == IF seen = NoUnit THEN om_pokemon_logs
                      ELSE [om_pokemon_logs EXCEPT ![seen] =
                              [@ EXCEPT !.created = TRUE,
                                        !.last_seen_turn = b.turn,
                                        !.moves_revealed =
                                            IF IsSwitch(b.opp_last_move) THEN @
                                            ELSE @ \cup {b.opp_last_move}]]
             newTera == /\ b.opp_active # NoUnit
                        /\ b.opp_terastallized
                        /\ logs1[b.opp_active].tera_turn = NoTurn
             logs2 == IF newTera
                      THEN [logs1 EXCEPT ![b.opp_active] =
                              [@ EXCEPT !.tera_type = "fire", !.tera_turn = b.turn]]
                      ELSE logs1
         IN
         /\ om_pending_sacks' = sk.pending
         /\ om_fainted_pokemon' = sk.fainted
         /\ om_sack_events' = sk.events
         /\ om_sack_turns' = sk.sack_turns
         /\ IF b.opp_last_move = NoMove
            THEN /\ om_stats' = [om_stats EXCEPT !.sacks = sk.sacks]
                 /\ UNCHANGED <<om_last_recorded_turn, om_turn_history, om_pokemon_logs,
                                om_double_switch_history, om_tera_record>>
            ELSE /\ om_stats' =
                      [om_stats EXCEPT
                         !.sacks = sk.sacks,
                         !.aggressive_actions = IF aggressive THEN @ + 1 ELSE @,
                         !.passive_actions = IF aggressive THEN @ ELSE @ + 1,
                         !.risky_actions = IF info.is_risky THEN @ + 1 ELSE @,
                         !.safe_actions = IF info.is_risky THEN @ ELSE @ + 1,
                         !.double_switch_attempts = IF ds THEN @ + 1 ELSE @,
                         !.double_switch_successes =
                             IF ds /\ b.ds_delta_high THEN @ + 1 ELSE @,
                         !.double_switches = IF ds THEN @ + 1 ELSE @]
                 /\ om_pokemon_logs' = logs2
                 /\ om_tera_record' =
                      IF newTera
                      THEN [pokemon |-> b.opp_active, type |-> "fire", turn |-> b.turn]
                      ELSE om_tera_record
                 /\ om_double_switch_history' =
                      IF ds
                      THEN Append(om_double_switch_history,
                                  [turn |-> b.turn, delta_high |-> b.ds_delta_high,
                                   opponent_active |-> b.opp_active])
                      ELSE om_double_switch_history
                 /\ om_turn_history' =
                      Append(om_turn_history,
                             [turn |-> b.turn, move |-> b.opp_last_move,
                              category |-> info.category, is_risky |-> info.is_risky])
                 /\ om_last_recorded_turn' = b.turn

FreshStats ==
    [aggressive_actions |-> 0, passive_actions |-> 0, risky_actions |-> 0,
     safe_actions |-> 0, sacks |-> 0, double_switch_attempts |-> 0,
     double_switch_successes |-> 0, double_switches |-> 0]

OmInit ==
    /\ om_stats = FreshStats
    /\ om_sack_turns = <<>>
    /\ om_last_recorded_turn = NoTurn
    /\ om_turn_history = <<>>
    /\ om_pokemon_logs = [u \in OppUnits |-> FreshLog]
    /\ om_pending_sacks = [u \in OppUnits |-> NoTurn]
    /\ om_fainted_pokemon = {}
    /\ om_sack_events = <<>>
    /\ om_double_switch_history = <<>>
    /\ om_tera_record = NoTera
    /\ om_call = [n |-> 0, turn |-> NoTurn]

\* OpponentModel.reset, called at match start
OmReset ==
    /\ om_call.n > 0
    /\ om_stats' = FreshStats
    /\ om_sack_turns' = <<>>
    /\ om_last_recorded_turn' = NoTurn
    /\ om_turn_history' = <<>>
    /\ om_pokemon_logs' = [u \in OppUnits |-> FreshLog]
    /\ om_pending_sacks' = [u \in OppUnits |-> NoTurn]
    /\ om_fainted_pokemon' = {}
    /\ om_sack_events' = <<>>
    /\ om_double_switch_history' = <<>>
    /\ om_tera_record' = NoTera
    /\ om_call' = [n |-> om_call.n, turn |-> NoTurn]

OmObserve ==
    /\ om_call.n < MaxObserveCalls
    /\ \E b \in ObservedBattles : ObserveTurn(b)

(***************************************************************************)
(* TimeManager                                                             *)
(***************************************************************************)
\* FoulPlayConfig.search_time_ms (default of --search-time-ms)
search_time_ms == 100
safety_buffer_s == 6
min_allocation_ms == 75
max_allocation_ms == 4000
\* battle.time_remaining is None
NoClock == -1

\* bound on the number of TimeManager calls in a run
MaxTimeCalls == 4

InitialBank == RInt(search_time_ms * 15)

\* battle.time_remaining, in seconds
ClockValues == {NoClock, 5, 8, 20, 40}
\* the criticality multipliers handed to allocate_search_time
Criticalities == {RInt(1), RInt(3)}
\* alive units per side
AliveCounts == {1, 6}

\* the bank _sync_clock leaves; the clock is known
SyncedBank(time_remaining) ==
    LET safe_seconds == IF time_remaining - safety_buffer_s > 0
                        THEN time_remaining - safety_buffer_s ELSE 0
    IN  RMax(RInt(safe_seconds * 1000), RInt(min_allocation_ms * 3))

\* the variant whose floor is one minimum allocation
_sync_clock_low_floor(bank, time_remaining) ==
    IF time_remaining = NoClock THEN bank
    ELSE RMax(RInt((IF time_remaining - safety_buffer_s > 0
                    THEN time_remaining - safety_buffer_s ELSE 0) * 1000),
              RInt(min_allocation_ms))

_sync_clock_unclamped(bank, time_remaining) ==
    IF time_remaining = NoClock THEN bank
    ELSE RInt((time_remaining - safety_buffer_s) * 1000)

_sync_clock(bank, time_remaining) ==
    IF time_remaining = NoClock THEN bank ELSE SyncedBank(time_remaining)

_estimate_turns_remaining_no_floor(user_alive, opp_alive) == user_alive + opp_alive

_estimate_turns_remaining(user_alive, opp_alive) ==
    IF user_alive + opp_alive > 3 THEN user_alive + opp_alive ELSE 3

\* the allocation (a float) allocate_search_time computes from the synced bank
Allocation(bank, high_leverage, criticality, remaining_turns) ==
    LET leverage_bonus == IF high_leverage THEN Rat(4, 10) ELSE RInt(0)
        desired0 == RMul(RInt(search_time_ms),
                         RMax(RInt(1), RAdd(criticality, leverage_bonus)))
        desired == RMin(desired0, RInt(max_allocation_ms))
        soft_limit == RDiv(bank, RInt(IF remaining_turns > 1 THEN remaining_turns ELSE 1))
    IN  RMax(RInt(min_allocation_ms), RMin(desired, soft_limit))

BankAfterGrowing(bank, allocation) == RAdd(bank, allocation)

\* bank_ms = max(0.0, bank_ms - allocation)
BankAfter(bank, allocation) == RMax(RInt(0), RSub(bank, allocation))

allocate_search_time(time_remaining, user_alive, opp_alive, criticality) ==
    LET bank == _sync_clock(tm_bank_ms, time_remaining)
        remaining_turns == _estimate_turns_remaining(user_alive, opp_alive)
        allocation == Allocation(bank, tm_high_leverage_turn, criticality, remaining_turns)
    IN
    /\ tm_call.n < MaxTimeCalls
    /\ tm_bank_ms' = BankAfter(bank, allocation)
    /\ tm_last_time_allocation' = allocation
    /\ tm_allocation_history' = Append(tm_allocation_history, allocation)
    /\ tm_call' = [n |-> tm_call.n + 1, op |-> "allocate", team_preview |-> FALSE,
                   time_remaining |-> time_remaining, synced |-> bank,
                   args |-> <<user_alive, opp_alive, criticality>>,
                   ret |-> RFloor(allocation)]
    /\ UNCHANGED tm_high_leverage_turn

SkipDecisionIgnoringLeverage(bank, high_leverage, time_remaining, team_preview) ==
    IF team_preview THEN FALSE
    ELSE IF time_remaining = NoClock THEN FALSE
    ELSE IF time_remaining > 30 THEN FALSE
    ELSE IF time_remaining <= 8 THEN TRUE
    ELSE RLt(bank, RInt(min_allocation_ms * 2))

\* the value should_skip_deep_search returns, the bank being synced
SkipDecision(bank, high_leverage, time_remaining, team_preview) ==
    IF team_preview THEN FALSE
    ELSE IF time_remaining = NoClock THEN FALSE
    ELSE IF time_remaining > 30 THEN FALSE
    ELSE IF high_leverage THEN FALSE
    ELSE IF time_remaining <= 8 THEN TRUE
    ELSE RLt(bank, RInt(min_allocation_ms * 2))

should_skip_deep_search(time_remaining, team_preview) ==
    LET bank == IF team_preview THEN tm_bank_ms
                ELSE _sync_clock(tm_bank_ms, time_remaining)
    IN
    /\ tm_call.n < MaxTimeCalls
    /\ tm_bank_ms' = bank
    /\ tm_call' = [n |-> tm_call.n + 1, op |-> "skip", team_preview |-> team_preview,
                   time_remaining |-> time_remaining, args |-> <<>>, synced |-> bank,
                   ret |-> IF SkipDecision(bank, tm_high_leverage_turn,
                                           time_remaining, team_preview)
                           THEN 1 ELSE 0]
    /\ UNCHANGED <<tm_last_time_allocation, tm_high_leverage_turn, tm_allocation_history>>

\* the metrics snapshots handed to update_from_metrics; given = FALSE is None or {}
MetricsInputs ==
    {m \in [given : BOOLEAN,
            momentum : {Rat(3, 10), Rat(1, 2)},
            has_win_condition : BOOLEAN,
            hp_ratio : {Rat(7, 10), RInt(1)}] :
        ~m.given => (m.momentum = Rat(1, 2) /\ m.has_win_condition /\ m.hp_ratio = RInt(1))}

HighLeverage(metrics) ==
    \/ RLt(metrics.momentum, Rat(4, 10))
    \/ ~metrics.has_win_condition
    \/ RLt(metrics.hp_ratio, Rat(8, 10))

update_from_metrics(metrics) ==
    /\ tm_call.n < MaxTimeCalls
    /\ IF ~metrics.given
       THEN /\ tm_high_leverage_turn' = FALSE
            /\ UNCHANGED tm_last_time_allocation
       ELSE /\ tm_high_leverage_turn' = HighLeverage(metrics)
            /\ tm_last_time_allocation' =
                 IF HighLeverage(metrics) THEN Rat(3, 2) ELSE RInt(1)
    /\ tm_call' = [n |-> tm_call.n + 1, op |-> "update", team_preview |-> FALSE,
                   time_remaining |-> NoClock,
                   args |-> <<>>, synced |-> tm_bank_ms, ret |-> 0]
    /\ UNCHANGED <<tm_bank_ms, tm_allocation_history>>

\* TimeManager.reset, called at match start
TmReset ==
    /\ tm_call.n > 0
    /\ tm_call.op # "reset"
    /\ tm_bank_ms' = InitialBank
    /\ tm_last_time_allocation' = RInt(0)
    /\ tm_high_leverage_turn' = FALSE
    /\ tm_allocation_history' = <<>>
    /\ tm_call' = [n |-> tm_call.n, op |-> "reset", team_preview |-> FALSE,
                   time_remaining |-> NoClock,
                   args |-> <<>>, synced |-> InitialBank, ret |-> 0]

TmInit ==
    /\ tm_bank_ms = InitialBank
    /\ tm_last_time_allocation = RInt(0)
    /\ tm_high_leverage_turn = FALSE
    /\ tm_allocation_history = <<>>
    /\ tm_call = [n |-> 0, op |-> "init", team_preview |-> FALSE,
                  time_remaining |-> NoClock,
                  args |-> <<>>, synced |-> InitialBank, ret |-> 0]

TmAllocate ==
    \E tr \in ClockValues, ua \in AliveCounts, oa \in AliveCounts, c \in Criticalities :
        allocate_search_time(tr, ua, oa, c)

TmSkip == \E tr \in ClockValues, tp \in BOOLEAN : should_skip_deep_search(tr, tp)

TmUpdate == \E m \in MetricsInputs : update_from_metrics(m)

(***************************************************************************)
(* calculate_position_criticality                                          *)
(***************************************************************************)
\* where reading the position metrics raises: nowhere, in
\* get_position_metrics, or at the lookup of one of the three keys
RaisePoints == {"nowhere", "get_position_metrics", "opp_sweep_potential",
                "has_win_condition", "momentum"}

\* The battle states and position metrics of a call.  active_hp is the HP of
\* the user's active unit out of max_hp 100; has_active = FALSE is no active unit.
UserAliveValues == {0, 1, 2, 3, 4, 6}
OppAliveValues == {1, 2, 3}
ActiveHpValues == {0, 29, 30, 100}
SweepValues == {Rat(3, 5), Rat(7, 10)}
MomentumValues == {Rat(3, 10), Rat(2, 5)}

\* an active unit with HP left counts among the alive units
ConsistentCritInput(i) ==
    /\ (i.has_active /\ i.active_hp > 0) => i.user_alive >= 1
    /\ ~i.has_active => i.active_hp = 100
    /\ i.team_preview => i.raises = "nowhere"

CritInputs ==
    {i \in [team_preview : BOOLEAN,
            user_alive : UserAliveValues,
            opp_alive : OppAliveValues,
            has_active : BOOLEAN,
            active_hp : ActiveHpValues,
            opp_sweep_potential : SweepValues,
            has_win_condition : BOOLEAN,
            momentum : MomentumValues,
            raises : RaisePoints] : ConsistentCritInput(i)}

UserAliveFactorSwapped(user_alive) ==
    IF user_alive <= 2 THEN Rat(3, 2)
    ELSE IF user_alive <= 3 THEN RInt(2) ELSE RInt(1)

UserAliveFactor(user_alive) ==
    IF user_alive <= 2 THEN RInt(2)
    ELSE IF user_alive <= 3 THEN Rat(3, 2) ELSE RInt(1)

\* criticality after the alive-count and HP tests (main.py 189-205)
CritAfterBattle(i) ==
    LET c1 == UserAliveFactor(i.user_alive)
        c2 == IF i.opp_alive <= 2 THEN RMul(c1, Rat(13, 10)) ELSE c1
    IN  IF i.has_active /\ i.active_hp * 10 < 3 * 100
        THEN RMul(c2, Rat(3, 2)) ELSE c2

CritAfterSweep(i) ==
    IF RLe(Rat(7, 10), i.opp_sweep_potential)
    THEN RMul(CritAfterBattle(i), Rat(18, 10)) ELSE CritAfterBattle(i)

CritAfterWincon(i) ==
    IF ~i.has_win_condition
    THEN RMul(CritAfterSweep(i), Rat(13, 10)) ELSE CritAfterSweep(i)

CritAfterMomentum(i) ==
    IF RLt(i.momentum, Rat(4, 10))
    THEN RMul(CritAfterWincon(i), Rat(12, 10)) ELSE CritAfterWincon(i)

\* the except branch: the multiplier reached so far, doubled in the endgame
CritOnError(partial, i) ==
    IF i.user_alive <= 2 THEN RMul(partial, RInt(2)) ELSE partial

calculate_position_criticality(i) ==
    IF i.team_preview THEN RInt(1)
    ELSE CASE i.raises = "get_position_metrics" -> CritOnError(RInt(1), i)
           [] i.raises = "opp_sweep_potential"  -> CritOnError(CritAfterBattle(i), i)
           [] i.raises = "has_win_condition"    -> CritOnError(CritAfterSweep(i), i)
           [] i.raises = "momentum"             -> CritOnError(CritAfterWincon(i), i)
           [] OTHER -> RMin(CritAfterMomentum(i), RInt(3))

CritIdleInput ==
    [team_preview |-> TRUE, user_alive |-> 6, opp_alive |-> 3, has_active |-> TRUE,
     active_hp |-> 100, opp_sweep_potential |-> Rat(3, 5), has_win_condition |-> TRUE,
     momentum |-> Rat(2, 5), raises |-> "nowhere"]

\* no call is made
CritIdle ==
    /\ crit_in = CritIdleInput
    /\ crit_out = RInt(0)
    /\ crit_pc = "start"

\* a call on any battle and metrics
CritInit ==
    /\ crit_in \in CritInputs
    /\ crit_out = RInt(0)
    /\ crit_pc = "start"

CritCall ==
    /\ crit_pc = "start"
    /\ crit_out' = calculate_position_criticality(crit_in)
    /\ crit_pc' = "done"
    /\ UNCHANGED crit_in

(***************************************************************************)
(* RiskRewardAnalyzer and estimate_damage                                  *)
(***************************************************************************)
\* bounds on the battle turn and on the number of evaluate_moves calls
MaxRiskTurn == 2
MaxRiskCalls == 2

\* the moves of the user's active unit, in order
ActiveMoves == <<"tackle", "thunder">>
\* every move identifier handed to the analyzer
RiskMoves == {"tackle", "thunder", "tackle-tera", "toxic", "switch 2", "dynamicpunch"}

\* all_move_json entries of the moves on the field
UserMoveData(name) ==
    CASE name = "tackle"  -> [known |-> TRUE, category |-> "physical", type |-> "normal",
                              basePower |-> 40, accuracy |-> 100]
      [] name = "thunder" -> [known |-> TRUE, category |-> "special", type |-> "electric",
                              basePower |-> 80, accuracy |-> 70]
      [] name = "toxic"   -> [known |-> TRUE, category |-> "status", type |-> "poison",
                              basePower |-> 0, accuracy |-> 90]
      [] name = "surf"    -> [known |-> TRUE, category |-> "special", type |-> "water",
                              basePower |-> 90, accuracy |-> 100]
      [] name = "swordsdance" -> [known |-> TRUE, category |-> "status",
                                  type |-> "normal", basePower |-> 0, accuracy |-> 100]
      [] name = "dynamicpunch" -> [known |-> TRUE, category |-> "physical",
                                   type |-> "fighting", basePower |-> 100,
                                   accuracy |-> 50]
      [] OTHER            -> [known |-> FALSE, category |-> "unknown", type |-> "normal",
                              basePower |-> 0, accuracy |-> 100]

\* one entry of the type chart: attacking type against one defending type
TypeChart(attack, defend) ==
    CASE attack = "rock" /\ defend \in {"flying", "fire"}      -> RInt(2)
      [] attack = "rock" /\ defend \in {"steel", "ground"}     -> Rat(1, 2)
      [] attack = "electric" /\ defend \in {"water", "flying"} -> RInt(2)
      [] attack = "electric" /\ defend = "ground"              -> RInt(0)
      [] attack = "normal" /\ defend = "steel"                 -> Rat(1, 2)
      [] attack = "electric" /\ defend = "electric"            -> Rat(1, 2)
      [] attack = "water" /\ defend \in {"fire", "ground", "rock"} -> RInt(2)
      [] attack = "water" /\ defend = "water"                  -> Rat(1, 2)
      [] attack = "flying" /\ defend \in {"electric", "rock", "steel"} -> Rat(1, 2)
      [] OTHER                                                 -> RInt(1)

RECURSIVE type_effectiveness_modifier(_, _)
type_effectiveness_modifier(attack, types) ==
    IF types = <<>> THEN RInt(1)
    ELSE RMul(TypeChart(attack, Head(types)),
              type_effectiveness_modifier(attack, Tail(types)))

SeqHas(seq, x) == \E k \in 1..Len(seq) : seq[k] = x

\* a unit of the user's reserve, the target of "switch 2"
ReserveUnits ==
    [types : {<<"fire", "flying">>, <<"normal">>},
     max_hp : {200},
     item : {"none", "heavydutyboots"},
     knocked_off : {FALSE},
     ability : {"none"},
     terastallized : {FALSE},
     volatile_statuses : {{}},
     status : {"none"}]

SideConditions ==
    {[stealthrock |-> 0, spikes |-> 0, toxicspikes |-> 0],
     [stealthrock |-> 1, spikes |-> 2, toxicspikes |-> 1]}

\* a mid-game battle: both sides active, hazards on the user's side
BaseBattle ==
    [turn |-> 1,
     user_active |-> TRUE,
     user_types |-> <<"electric">>,
     user_terastallized |-> FALSE,
     user_tera_type |-> "normal",
     opp_active |-> TRUE,
     opp_hp |-> 200,
     opp_types |-> <<"water">>,
     engine |-> "rolls",
     momentum |-> Rat(3, 10),
     metrics_given |-> TRUE,
     side_conditions |-> [stealthrock |-> 1, spikes |-> 2, toxicspikes |-> 1],
     reserve |-> [types |-> <<"normal">>, max_hp |-> 200, item |-> "none",
                  knocked_off |-> FALSE, ability |-> "none", terastallized |-> FALSE,
                  volatile_statuses |-> {}, status |-> "none"]]

BattleFields == DOMAIN BaseBattle \ {"turn"}

\* The battles the analyzer sees on a turn: the base battle and every battle
\* that differs from it in one respect.  engine is what
\* poke_engine_get_damage_rolls does on this battle: return a non-crit and a
\* crit roll, return a single roll, return no rolls, or raise ("fails", kept
\* apart in TeraBattles: it raises and so does the fallback estimate).
RiskBattleShapes ==
    {b \in [turn : {1},
            user_active : BOOLEAN,
            user_types : {<<"electric">>},
            user_terastallized : BOOLEAN,
            user_tera_type : {"normal"},
            opp_active : BOOLEAN,
            opp_hp : {30, 200},
            opp_types : {<<"water">>},
            engine : {"rolls", "single", "empty", "raises"},
            momentum : {Rat(3, 10), Rat(4, 5)},
            metrics_given : BOOLEAN,
            side_conditions : SideConditions,
            reserve : ReserveUnits] :
        Cardinality({f \in BattleFields : b[f] # BaseBattle[f]}) <= 1}

RiskBattlesAt(turn) == {[b EXCEPT !.turn = turn] : b \in RiskBattleShapes}

RiskBattles == UNION {RiskBattlesAt(t) : t \in 1..MaxRiskTurn}

NoProfile == [name |-> "none"]

_stealth_rock_damage(pokemon) ==
    IF pokemon.types = <<>> THEN RInt(0)
    ELSE RMul(RDiv(type_effectiveness_modifier("rock", pokemon.types), RInt(8)),
              RInt(pokemon.max_hp))

_is_grounded(pokemon) ==
    IF SeqHas(pokemon.types, "flying") THEN FALSE
    ELSE IF pokemon.ability = "levitate" /\ ~pokemon.terastallized THEN FALSE
    ELSE IF pokemon.item = "airballoon" THEN FALSE
    ELSE IF "magnetrise" \in pokemon.volatile_statuses
            \/ "telekinesis" \in pokemon.volatile_statuses THEN FALSE
    ELSE TRUE

SPIKES_FRACTIONS(layers) ==
    CASE layers = 1 -> Rat(1, 8) [] layers = 2 -> Rat(3, 16) [] OTHER -> Rat(1, 4)

TOXIC_SPIKES_PENALTY(layers) ==
    IF layers = 1 THEN Rat(1, 8) ELSE Rat(3, 16)

HazardCostIgnoringBoots(hazards, target) ==
    LET rocks == IF hazards.stealthrock # 0 THEN _stealth_rock_damage(target) ELSE RInt(0)
        spikes == IF hazards.spikes # 0 /\ _is_grounded(target)
                  THEN RMul(RInt(target.max_hp), SPIKES_FRACTIONS(hazards.spikes))
                  ELSE RInt(0)
        toxic == IF /\ hazards.toxicspikes # 0
                    /\ _is_grounded(target)
                    /\ target.status = "none"
                    /\ ~SeqHas(target.types, "poison")
                    /\ ~SeqHas(target.types, "steel")
                 THEN RMul(RInt(target.max_hp),
                           TOXIC_SPIKES_PENALTY(IF hazards.toxicspikes < 2
                                                THEN hazards.toxicspikes ELSE 2))
                 ELSE RInt(0)
    IN  RAdd(RAdd(rocks, spikes), toxic)

_estimate_switch_hazard_cost_boots_ignored(hazards, target, target_found) ==
    IF ~target_found THEN RInt(0) ELSE HazardCostIgnoringBoots(hazards, target)

\* target_found = FALSE: _resolve_switch_target returned None
_estimate_switch_hazard_cost(hazards, target, target_found) ==
    IF ~target_found THEN RInt(0)
    ELSE IF target.item = "heavydutyboots" /\ ~target.knocked_off THEN RInt(0)
    ELSE HazardCostIgnoringBoots(hazards, target)

\* "switch 2" names the reserve unit; any other switch identifier resolves to None
_resolve_switch_target(move_name) == move_name = "switch 2"

LeverageMultiplierFlat(b) == RInt(1)

LeverageMultiplier(b) ==
    IF ~b.metrics_given THEN RInt(1)
    ELSE IF RLt(b.momentum, Rat(4, 10)) THEN Rat(3, 2)
    ELSE IF RLt(Rat(7, 10), b.momentum) THEN Rat(3, 4)
    ELSE RInt(1)

SwitchProfile(b, move_name) ==
    LET hazard_cost == _estimate_switch_hazard_cost(b.side_conditions, b.reserve,
                                                    _resolve_switch_target(move_name))
    IN  [name |-> move_name,
         expected_value |-> RSub(RInt(0), hazard_cost),
         fail_chance |-> RInt(0),
         variance |-> RMul(RMul(hazard_cost, LeverageMultiplier(b)), Rat(5, 100)),
         min_damage |-> RSub(RInt(0), hazard_cost),
         max_damage |-> RInt(0),
         hazard_cost |-> hazard_cost,
         crit_chance |-> RInt(0),
         description |-> IF RLe(hazard_cost, RInt(1)) THEN "switch" ELSE "switch-hazard"]

_split_move_metadata(move_name) ==
    IF move_name = "tackle-tera"
    THEN [name |-> "tackle", tera |-> TRUE, mega |-> FALSE]
    ELSE [name |-> move_name, tera |-> FALSE, mega |-> FALSE]

\* _temporary_tera: entering the block
TeraApplies(b, should_tera) ==
    should_tera /\ b.user_active /\ ~b.user_terastallized /\ b.user_tera_type # "none"

TeraEnter(b, should_tera) ==
    IF TeraApplies(b, should_tera)
    THEN [b EXCEPT !.user_terastallized = TRUE, !.user_types = <<b.user_tera_type>>]
    ELSE b

TeraExitKeeps(b, original) == b

\* _temporary_tera: the finally clause restores the snapshot
TeraExit(b, original) ==
    [b EXCEPT !.user_types = original.user_types,
              !.user_terastallized = original.user_terastallized]

DamageZero ==
    [expected_damage |-> RInt(0), variance |-> RInt(0), min_damage |-> RInt(0),
     max_damage |-> RInt(0), hit_chance |-> RInt(0), crit_chance |-> RInt(0)]

_accuracy_from_move(move_data) ==
    RMax(RInt(0), RMin(RInt(1), Rat(move_data.accuracy, 100)))

CritChance == Rat(1, 24)

RSq(x) == RMul(x, x)

_fallback_damage_estimate(b, move_data) ==
    LET effectiveness == type_effectiveness_modifier(move_data.type, b.opp_types)
        stab == IF SeqHas(b.user_types, move_data.type) THEN Rat(3, 2) ELSE RInt(1)
        raw == RMul(RMul(RInt(move_data.basePower), effectiveness), stab)
        min_damage == RMul(raw, Rat(85, 100))
        on_hit_mean == RDiv(RAdd(min_damage, raw), RInt(2))
        hit == _accuracy_from_move(move_data)
        spread == RSub(raw, min_damage)
        on_hit_variance == IF RLt(RInt(0), spread)
                           THEN RDiv(RSq(spread), RInt(12)) ELSE RInt(0)
    IN  [expected_damage |-> RMul(hit, on_hit_mean),
         variance |-> RAdd(RMul(hit, on_hit_variance),
                           RMul(RMul(hit, RSub(RInt(1), hit)), RSq(on_hit_mean))),
         min_damage |-> min_damage,
         max_damage |-> raw,
         hit_chance |-> hit,
         crit_chance |-> CritChance]

\* what poke_engine_get_damage_rolls returns for the user's move on battle b:
\* <<max non-crit roll, max crit roll>>; a single roll stands for both
EngineRolls(b, move_data) ==
    LET stab == IF SeqHas(b.user_types, move_data.type) THEN Rat(3, 2) ELSE RInt(1)
        base == RMul(RInt(move_data.basePower), stab)
    IN  IF b.engine = "single" THEN <<base, base>> ELSE <<base, RMul(base, RInt(2))>>

DamageFromRolls(rolls, move_data) ==
    LET accuracy == _accuracy_from_move(move_data)
        max_noncrit == rolls[1]
        max_crit == rolls[2]
        min_noncrit == RMul(max_noncrit, Rat(85, 100))
        min_crit == RMul(max_crit, Rat(85, 100))
        mean_noncrit == RDiv(RAdd(min_noncrit, max_noncrit), RInt(2))
        mean_crit == RDiv(RAdd(min_crit, max_crit), RInt(2))
        no_crit == RSub(RInt(1), CritChance)
        on_hit_mean == RAdd(RMul(no_crit, mean_noncrit), RMul(CritChance, mean_crit))
        spread_noncrit == RSub(max_noncrit, min_noncrit)
        spread_crit == RSub(max_crit, min_crit)
        var_noncrit == IF RLt(RInt(0), spread_noncrit)
                       THEN RDiv(RSq(spread_noncrit), RInt(12)) ELSE RInt(0)
        var_crit == IF RLt(RInt(0), spread_crit)
                    THEN RDiv(RSq(spread_crit), RInt(12)) ELSE RInt(0)
        on_hit_variance ==
            RAdd(RAdd(RAdd(RMul(no_crit, var_noncrit), RMul(CritChance, var_crit)),
                      RMul(no_crit, RSq(RSub(mean_noncrit, on_hit_mean)))),
                 RMul(CritChance, RSq(RSub(mean_crit, on_hit_mean))))
    IN  [expected_damage |-> RMul(accuracy, on_hit_mean),
         variance |-> RAdd(RMul(accuracy, on_hit_variance),
                           RMul(RMul(accuracy, RSub(RInt(1), accuracy)), RSq(on_hit_mean))),
         min_damage |-> min_noncrit,
         max_damage |-> max_crit,
         hit_chance |-> accuracy,
         crit_chance |-> CritChance]

\* whether estimate_damage reaches the damage engine for this move
QueriesEngine(b, move_name) ==
    /\ UserMoveData(move_name).known
    /\ UserMoveData(move_name).category \in {"physical", "special"}
    /\ b.user_active /\ b.opp_active

\* estimate_damage raises: the engine raises and so does the fallback estimate
EstimateRaises(b, move_name) == QueriesEngine(b, move_name) /\ b.engine = "fails"

estimate_damage(b, move_name) ==
    IF ~QueriesEngine(b, move_name) THEN DamageZero
    ELSE IF b.engine \in {"rolls", "single"}
         THEN DamageFromRolls(EngineRolls(b, UserMoveData(move_name)), UserMoveData(move_name))
         ELSE _fallback_damage_estimate(b, UserMoveData(move_name))

AttackProfile(b, move_name, damage) ==
    LET meta == _split_move_metadata(move_name)
        fail_chance == RMax(RInt(0), RSub(RInt(1), damage.hit_chance))
        description ==
            IF b.opp_active /\ b.opp_hp # 0 /\ RLe(RInt(b.opp_hp), damage.max_damage)
            THEN "finisher"
            ELSE IF RLe(Rat(3, 10), fail_chance) THEN "high-risk"
            ELSE IF meta.tera THEN "tera"
            ELSE IF meta.mega THEN "mega" ELSE "raw"
    IN  [name |-> move_name,
         expected_value |-> damage.expected_damage,
         fail_chance |-> fail_chance,
         variance |-> RMul(damage.variance, LeverageMultiplier(b)),
         min_damage |-> damage.min_damage,
         max_damage |-> damage.max_damage,
         hazard_cost |-> RInt(0),
         crit_chance |-> damage.crit_chance,
         description |-> description]

\* one iteration of the scoring loop; st = [cache, stamp, queries, battle,
\* raised]
ScoreMove(st, move_name) ==
    IF IsSwitch(move_name)
    THEN [st EXCEPT !.cache[move_name] = SwitchProfile(st.battle, move_name),
                    !.stamp[move_name] = st.battle.turn]
    ELSE LET meta == _split_move_metadata(move_name)
             inside == TeraEnter(st.battle, meta.tera)
             damage == estimate_damage(inside, meta.name)
             after == IF TeraApplies(st.battle, meta.tera)
                      THEN TeraExit(inside, st.battle) ELSE inside
         IN  IF EstimateRaises(inside, meta.name)
             THEN [st EXCEPT !.queries = st.queries + 1, !.battle = after,
                             !.raised = TRUE]
             ELSE [cache |-> [st.cache EXCEPT ![move_name] =
                                 AttackProfile(after, move_name, damage)],
                   stamp |-> [st.stamp EXCEPT ![move_name] = after.turn],
                   queries |-> st.queries +
                               (IF QueriesEngine(inside, meta.name) THEN 1 ELSE 0),
                   battle |-> after,
                   raised |-> FALSE]

RECURSIVE ScoreMoves(_, _)
ScoreMoves(st, moves) ==
    IF moves = <<>> \/ st.raised THEN st
    ELSE ScoreMoves(ScoreMove(st, Head(moves)), Tail(moves))

\* candidate_moves: given = FALSE is None (the active unit's moves)
CandidateSets ==
    {[given |-> FALSE, moves |-> <<>>],
     [given |-> TRUE, moves |-> <<>>],
     [given |-> TRUE, moves |-> <<"tackle", "switch 2">>],
     [given |-> TRUE, moves |-> <<"tackle-tera", "thunder", "toxic">>]}

EmptyCache == [m \in RiskMoves |-> NoProfile]
EmptyStamps == [m \in RiskMoves |-> NoTurn]

Cached(cache, move_name) == cache[move_name] # NoProfile

\* {mv: self.turn_cache[mv] for mv in moves if mv in self.turn_cache}
Selected(cache, moves) ==
    [m \in RiskMoves |-> IF SeqHas(moves, m) THEN cache[m] ELSE NoProfile]

\* the cache evaluate_moves starts from: emptied when candidate_moves is None
CacheAtEntry(cache, cands) == IF cands.given THEN cache ELSE EmptyCache

\* moves_to_score = [mv for mv in moves if mv not in self.turn_cache]
MovesToScoreAll(cache, moves) == moves

MovesToScore(cache, moves) == SelectSeq(moves, LAMBDA m : ~Cached(cache, m))

\* what evaluate_moves leaves behind and returns:
\* [cache, stamp, queries, battle, ret, raised]
EvaluateMovesOutcome(cands) ==
    IF ~rb.user_active \/ ~rb.opp_active
    THEN [cache |-> ra_turn_cache, stamp |-> ra_computed_turn,
          queries |-> ra_damage_queries, battle |-> rb, ret |-> ra_turn_cache,
          raised |-> FALSE]
    ELSE
      LET cache0 == CacheAtEntry(ra_turn_cache, cands)
          stamp0 == [m \in RiskMoves |->
                       IF Cached(cache0, m) THEN ra_computed_turn[m] ELSE NoTurn]
          moves == IF cands.given THEN cands.moves ELSE ActiveMoves
          moves_to_score == MovesToScore(cache0, moves)
          st == ScoreMoves([cache |-> cache0, stamp |-> stamp0,
                            queries |-> ra_damage_queries, battle |-> rb,
                            raised |-> FALSE],
                           moves_to_score)
      IN  [cache |-> st.cache, stamp |-> st.stamp, queries |-> st.queries,
           battle |-> st.battle,
           ret |-> IF moves = <<>> THEN st.cache ELSE Selected(st.cache, moves),
           raised |-> st.raised]

\* the call evaluate_moves(battle, metrics, cands) with the given outcome
EvaluateMovesCall(cands, outcome) ==
    /\ ra_call.n < MaxRiskCalls
    /\ ra_call' = [n |-> ra_call.n + 1, turn |-> rb.turn, cands |-> cands,
                   repeats |-> (ra_call.turn = rb.turn /\ ra_call.cands = cands),
                   raised |-> outcome.raised]
    /\ ra_turn_cache' = outcome.cache
    /\ ra_computed_turn' = outcome.stamp
    /\ ra_damage_queries' = outcome.queries
    /\ rb' = outcome.battle
    /\ ra_ret' = IF outcome.raised THEN ra_ret ELSE outcome.ret

evaluate_moves(cands) ==
    \E outcome \in {EvaluateMovesOutcome(cands)} : EvaluateMovesCall(cands, outcome)

\* RiskRewardAnalyzer.reset
RaReset ==
    /\ ra_call.n > 0
    /\ ra_turn_cache # EmptyCache
    /\ ra_turn_cache' = EmptyCache
    /\ ra_computed_turn' = EmptyStamps
    /\ ra_call' = [ra_call EXCEPT !.turn = NoTurn, !.repeats = FALSE]
    /\ UNCHANGED <<ra_damage_queries, ra_ret, rb>>

\* the match moves on to its next turn
RaNextTurn ==
    /\ rb.turn < MaxRiskTurn
    /\ rb' \in RiskBattlesAt(rb.turn + 1)
    /\ UNCHANGED <<ra_turn_cache, ra_computed_turn, ra_damage_queries, ra_ret, ra_call>>

RaEvaluate == \E c \in CandidateSets : evaluate_moves(c)

RaFresh ==
    /\ ra_turn_cache = EmptyCache
    /\ ra_computed_turn = EmptyStamps
    /\ ra_damage_queries = 0
    /\ ra_ret = EmptyCache
    /\ ra_call = [n |-> 0, turn |-> NoTurn, cands |-> [given |-> FALSE, moves |-> <<>>],
                  repeats |-> FALSE, raised |-> FALSE]

RaIdleBattle == CHOOSE b \in RiskBattlesAt(1) : b.user_active /\ b.opp_active

\* no call is made
RaIdle == RaFresh /\ rb = RaIdleBattle

\* a fresh analyzer on any first-turn battle
RaInit == RaFresh /\ rb \in RiskBattlesAt(1)

\* first-turn battles, and the same battles when estimate_damage raises
TeraBattles == RiskBattlesAt(1) \cup {[b EXCEPT !.engine = "fails"] : b \in RiskBattlesAt(1)}

TeraInit == RaFresh /\ rb \in TeraBattles

(***************************************************************************)
(* StrategicContext and select_move_from_mcts_results                      *)
(***************************************************************************)
\* bound on the number of determinizations handed to the selector
MaxDet == 2

\* mcts_result.side_one lists these options, in this order
SelMoves == <<"tackle", "dynamicpunch", "tackle-tera", "switch 2">>

\* the visits of the four options in one search result, and the sample
\* chance the sampler attached to the determinization
VisitProfiles == {<<10, 0, 0, 0>>, <<9, 1, 0, 0>>, <<4, 3, 2, 1>>, <<0, 0, 5, 5>>}
SampleChances == {Rat(1, 2), RInt(1)}

Determinizations == [visits : VisitProfiles, sample_chance : SampleChances]

MctsResults == UNION {[1..n -> Determinizations] : n \in 1..MaxDet}

\* the battles the selector is called on: position metrics are always given
SelBaseBattle == [BaseBattle EXCEPT !.engine = "single"]

SelBattles ==
    {SelBaseBattle,
     [SelBaseBattle EXCEPT !.opp_hp = 30],
     [SelBaseBattle EXCEPT !.momentum = Rat(4, 5)],
     [SelBaseBattle EXCEPT !.user_active = FALSE]}

\* the rest of what is read off the battle: the opposing active unit's moves
\* and the parts of get_position_metrics(battle) other than momentum
SelBattleFacts ==
    {[opp_moves |-> <<>>, tempo_score |-> Rat(1, 2), opponent_setup_window |-> FALSE,
      has_win_condition |-> TRUE, hp_ratio |-> RInt(1), preserve |-> <<>>],
     [opp_moves |-> <<"surf">>, tempo_score |-> Rat(1, 2), opponent_setup_window |-> TRUE,
      has_win_condition |-> FALSE, hp_ratio |-> Rat(7, 10), preserve |-> <<"u2">>],
     [opp_moves |-> <<>>, tempo_score |-> Rat(9, 10), opponent_setup_window |-> FALSE,
      has_win_condition |-> TRUE, hp_ratio |-> RInt(1), preserve |-> <<>>]}

\* the turns the opponent model has watched before the selector runs
SelObservedBattles ==
    {[turn |-> 1, opp_active |-> "p1", opp_hp |-> [u \in OppUnits |-> 60],
      opp_max_hp |-> 100, opp_terastallized |-> TRUE, opp_last_move |-> "hydropump",
      user_last_move |-> NoMove, same_move_turn |-> FALSE, ds_delta_high |-> FALSE],
     [turn |-> 1, opp_active |-> "p2", opp_hp |-> [u \in OppUnits |-> 60],
      opp_max_hp |-> 100, opp_terastallized |-> FALSE, opp_last_move |-> "switch p2",
      user_last_move |-> "switch 2", same_move_turn |-> TRUE, ds_delta_high |-> TRUE]}

NoMetrics == [given |-> FALSE]

get_position_metrics(b, facts) ==
    [given |-> TRUE,
     momentum |-> b.momentum,
     has_win_condition |-> facts.has_win_condition,
     hp_ratio |-> facts.hp_ratio,
     tempo_score |-> facts.tempo_score,
     opponent_setup_window |-> facts.opponent_setup_window,
     preserve |-> facts.preserve]

\* WinConditionTracker.update_from_metrics: the new do_not_sack
WcUpdateFromMetrics(metrics) ==
    IF ~metrics.given THEN wc_do_not_sack ELSE metrics.preserve

\* StrategicContext.update_position_metrics
update_position_metrics(metrics) ==
    /\ sc_last_position_metrics' = metrics
    /\ wc_do_not_sack' = WcUpdateFromMetrics(metrics)
    /\ update_from_metrics(metrics)

\* OpponentBehaviorStats
aggression_index(stats) ==
    LET total == stats.aggressive_actions + stats.passive_actions
    IN  IF total = 0 THEN Rat(1, 2) ELSE Rat(stats.aggressive_actions, total)

risk_tolerance(stats) ==
    LET total == stats.risky_actions + stats.safe_actions
    IN  IF total = 0 THEN Rat(1, 2) ELSE Rat(stats.risky_actions, total)

double_switch_success_rate(stats) ==
    IF stats.double_switch_attempts = 0 THEN RInt(0)
    ELSE Rat(stats.double_switch_successes, stats.double_switch_attempts)

sack_timing_index(sack_turns) ==
    IF sack_turns = <<>> THEN RInt(0)
    ELSE Rat(Len(SelectSeq(sack_turns, LAMBDA t : t <= 8)), Len(sack_turns))

\* OpponentModel.get_profile, the entries the selector reads
get_profile(stats, sack_turns, tera_record) ==
    [aggression |-> aggression_index(stats),
     risk_tolerance |-> risk_tolerance(stats),
     double_switch_success |-> double_switch_success_rate(stats),
     sack_timing |-> sack_timing_index(sack_turns),
     tera_turn |-> IF tera_record = NoTera THEN NoTurn ELSE tera_record.turn]

\* lookahead._estimate_damage
_estimate_damage(move_name, attacker_types, defender_types) ==
    LET move_data == UserMoveData(move_name)
    IN  IF ~move_data.known THEN RInt(0)
        ELSE IF move_data.category \notin {"physical", "special"} THEN RInt(0)
        ELSE RMul(RMul(RInt(move_data.basePower),
                       type_effectiveness_modifier(move_data.type, defender_types)),
                  IF SeqHas(attacker_types, move_data.type) THEN Rat(3, 2) ELSE RInt(1))

RECURSIVE BestResponseOver(_, _, _, _)
BestResponseOver(b, moves, aggression, best_damage) ==
    IF moves = <<>> THEN best_damage
    ELSE LET move_data == UserMoveData(Head(moves))
             raw == _estimate_damage(Head(moves), b.opp_types, b.user_types)
             hit == RMul(raw, Rat(move_data.accuracy, 100))
             score == IF RLt(Rat(7, 10), aggression) THEN RMul(hit, Rat(11, 10)) ELSE hit
         IN  IF ~move_data.known \/ move_data.category \notin {"physical", "special"}
             THEN BestResponseOver(b, Tail(moves), aggression, best_damage)
             ELSE BestResponseOver(b, Tail(moves), aggression,
                                   IF RLt(best_damage, score) THEN score ELSE best_damage)

_opponent_best_response(b, opp_moves, aggression) ==
    IF ~b.opp_active \/ ~b.user_active THEN RInt(0)
    ELSE BestResponseOver(b, opp_moves, aggression, RInt(0))

NoScore == [has |-> FALSE, score |-> RInt(0)]

\* lookahead.evaluate_candidate_lines: the score of one candidate
LineScore(move_name, profile, opponent_damage, opponent_profile, position_metrics) ==
    LET tempo_bias == RSub(position_metrics.tempo_score, Rat(1, 2))
        safety_penalty == IF position_metrics.opponent_setup_window
                          THEN Rat(1, 5) ELSE RInt(0)
        net_damage == RSub(profile.expected_value, opponent_damage)
        variance_penalty == RMul(profile.variance,
                                 RSub(RInt(1), opponent_profile.risk_tolerance))
        score == RSub(RSub(RAdd(RDiv(net_damage, RInt(100)), tempo_bias),
                           variance_penalty), safety_penalty)
    IN  IF IsSwitch(move_name) THEN RSub(tempo_bias, safety_penalty)
        ELSE IF profile.description = "finisher" THEN RAdd(score, Rat(3, 10))
        ELSE score

evaluate_candidate_lines(b, opp_moves, candidate_moves, opponent_profile, risk_profiles, position_metrics) ==
    LET opponent_damage ==
            _opponent_best_response(b, opp_moves, opponent_profile.aggression)
    IN  [m \in RiskMoves |->
            IF SeqHas(candidate_moves, m) /\ risk_profiles[m] # NoProfile
            THEN [has |-> TRUE,
                  score |-> LineScore(m, risk_profiles[m], opponent_damage,
                                      opponent_profile, position_metrics)]
            ELSE NoScore]

\* one pass of the adjustment loop: the factor applied to a move's weight
Adjustment(move_name, line_evaluations, risk_profiles, opponent_profile, position_metrics) ==
    LET a0 == RInt(1)
        a1 == IF line_evaluations[move_name].has
              THEN RAdd(a0, line_evaluations[move_name].score) ELSE a0
        profile == risk_profiles[move_name]
        momentum == position_metrics.momentum
        a2 == IF profile = NoProfile THEN a1
              ELSE IF RLt(Rat(6, 10), momentum)
                   THEN RMul(a1, RMax(Rat(4, 10), RSub(RInt(1), profile.fail_chance)))
              ELSE IF RLt(momentum, Rat(4, 10))
                   THEN RMul(a1, RAdd(RInt(1), RDiv(profile.expected_value, RInt(150))))
              ELSE a1
        a3 == IF profile # NoProfile /\ profile.description = "finisher"
              THEN RMul(a2, RAdd(RInt(1), RMul(opponent_profile.sack_timing, Rat(3, 10))))
              ELSE a2
        a4 == IF IsSwitch(move_name)
              THEN RMul(a3, RMax(Rat(2, 10),
                                 RSub(RInt(1), RMul(opponent_profile.double_switch_success,
                                                    Rat(1, 2)))))
              ELSE a3
    IN  IF _split_move_metadata(move_name).tera
        THEN IF opponent_profile.tera_turn = NoTurn
             THEN RMul(a4, Rat(9, 10)) ELSE RMul(a4, Rat(11, 10))
        ELSE a4

\* mcts_result.total_visits
SumNat(v) == v[1] + v[2] + v[3] + v[4]

\* sample_chance * visit_percentage of option i
WeightedVisit(det, i) ==
    RMul(det.sample_chance, Rat(det.visits[i], SumNat(det.visits)))

RECURSIVE AggregateWeight(_, _)
AggregateWeight(mcts_results, i) ==
    IF mcts_results = <<>> THEN RInt(0)
    ELSE RAdd(WeightedVisit(Head(mcts_results), i),
              AggregateWeight(Tail(mcts_results), i))

\* final_policy before sorting, in insertion order
Aggregate(mcts_results) ==
    [i \in 1..Len(SelMoves) |-> <<SelMoves[i], AggregateWeight(mcts_results, i)>>]

RECURSIVE InsertByWeight(_, _)
InsertByWeight(sorted, e) ==
    IF sorted = <<>> THEN <<e>>
    ELSE IF RLt(Head(sorted)[2], e[2]) THEN <<e>> \o sorted
    ELSE <<Head(sorted)>> \o InsertByWeight(Tail(sorted), e)

\* sorted(..., key=weight, reverse=True): stable, heaviest first
RECURSIVE SortByWeight(_)
SortByWeight(policy) ==
    IF policy = <<>> THEN <<>>
    ELSE InsertByWeight(SortByWeight(SubSeq(policy, 1, Len(policy) - 1)),
                        policy[Len(policy)])

Weights(policy) == [i \in 1..Len(policy) |-> policy[i][2]]

\* final_policy = [i for i in final_policy if i[1] >= highest_percentage * 0.75]
Trim(final_policy) ==
    SelectSeq(final_policy,
              LAMBDA e : RLe(RMul(final_policy[1][2], Rat(3, 4)), e[2]))

\* the renormalisation at the end of the strategic-context block
Renormalize(trimmed, adjusted_policy) ==
    LET total == RSumSeq(Weights(adjusted_policy))
    IN  IF RLt(RInt(0), total)
        THEN [i \in 1..Len(adjusted_policy) |->
                <<adjusted_policy[i][1], RDiv(adjusted_policy[i][2], total)>>]
        ELSE trimmed

\* random.choices(final_policy, weights): any entry of positive weight
Draw(final_policy, context_used) ==
    \E i \in 1..Len(final_policy) :
        /\ RLt(RInt(0), final_policy[i][2])
        /\ sel_out' = [choice |-> final_policy[i][1],
                       policy_summary |-> final_policy,
                       context_used |-> context_used]

\* the strategic-context block: final_policy after adjustment and
\* renormalisation
BlendPolicy(trimmed, turn_cache, position_metrics, opponent_profile, b, opp_moves) ==
    LET candidate_moves == [i \in 1..Len(trimmed) |-> trimmed[i][1]]
        risk_profiles == Selected(turn_cache, candidate_moves)
        line_evaluations ==
            evaluate_candidate_lines(b, opp_moves, candidate_moves, opponent_profile,
                                     risk_profiles, position_metrics)
        adjusted_policy ==
            [i \in 1..Len(trimmed) |->
               <<trimmed[i][1],
                 RMax(RMul(trimmed[i][2],
                           Adjustment(trimmed[i][1], line_evaluations, risk_profiles,
                                      opponent_profile, position_metrics)),
                      RInt(0))>>]
    IN  Renormalize(trimmed, adjusted_policy)

\* the calls the strategic-context block makes on the context, and the draw
SelectWithContext(trimmed, missing, position_metrics, outcome) ==
    /\ IF sc_last_position_metrics = NoMetrics
       THEN update_position_metrics(position_metrics)
       ELSE UNCHANGED <<sc_last_position_metrics, wc_do_not_sack, tm_vars>>
    /\ IF missing.moves # <<>>
       THEN EvaluateMovesCall(missing, outcome)
       ELSE UNCHANGED ra_vars
    /\ \E final_policy \in
            {BlendPolicy(trimmed, outcome.cache, position_metrics,
                         get_profile(om_stats, om_sack_turns, om_tera_record),
                         rb, sel_battle.opp_moves)} :
          Draw(final_policy, TRUE)

SelectFrom(sorted_policy, trimmed, missing, with_context) ==
    IF RLe(Rat(9, 10), sorted_policy[1][2])
    THEN /\ sel_out' = [choice |-> sorted_policy[1][1],
                        policy_summary |-> <<<<sorted_policy[1][1], RInt(1)>>>>,
                        context_used |-> FALSE]
         /\ UNCHANGED <<sc_last_position_metrics, wc_do_not_sack, tm_vars, ra_vars>>
    ELSE IF ~with_context
    THEN /\ Draw(trimmed, FALSE)
         /\ UNCHANGED <<sc_last_position_metrics, wc_do_not_sack, tm_vars, ra_vars>>
    ELSE \E position_metrics \in
                {IF sc_last_position_metrics = NoMetrics
                 THEN get_position_metrics(rb, sel_battle)
                 ELSE sc_last_position_metrics},
            outcome \in
                {IF missing.moves # <<>>
                 THEN EvaluateMovesOutcome(missing)
                 ELSE [cache |-> ra_turn_cache]} :
            SelectWithContext(trimmed, missing, position_metrics, outcome)

select_move_from_mcts_results(mcts_results, with_context) ==
    /\ sel_pc = "ready"
    /\ sel_pc' = "done"
    /\ sel_in' = [mcts_results |-> mcts_results, with_context |-> with_context]
    /\ \E sorted_policy \in {SortByWeight(Aggregate(mcts_results))} :
       \E trimmed \in {Trim(sorted_policy)} :
       \E missing_moves \in
              {SelectSeq([i \in 1..Len(trimmed) |-> trimmed[i][1]],
                         LAMBDA mv : ~Cached(ra_turn_cache, mv))} :
          SelectFrom(sorted_policy, trimmed,
                     [given |-> TRUE, moves |-> missing_moves], with_context)
    /\ UNCHANGED <<om_vars, crit_vars, sel_battle, heur_vars, orch_vars>>

NoSelIn == [mcts_results |-> <<>>, with_context |-> FALSE]
NoSelOut == [choice |-> NoMove, policy_summary |-> <<>>, context_used |-> FALSE]

\* find_best_move, up to the search: observe_turn(battle),
\* update_position_metrics(get_position_metrics(battle)) and
\* risk_analyzer.evaluate_moves(battle, position_metrics)
SelPrelude ==
    /\ sel_pc = "ready"
    /\ om_call.n = 0
    /\ \E b \in SelObservedBattles : ObserveTurn(b)
    /\ \E position_metrics \in {get_position_metrics(rb, sel_battle)} :
          update_position_metrics(position_metrics)
    /\ evaluate_moves([given |-> FALSE, moves |-> <<>>])
    /\ UNCHANGED <<crit_vars, sel_battle, sel_in, sel_out, sel_pc, heur_vars, orch_vars>>

SelSelect ==
    \E r \in MctsResults, c \in BOOLEAN : select_move_from_mcts_results(r, c)

SelFresh ==
    /\ sc_last_position_metrics = NoMetrics
    /\ wc_do_not_sack = <<>>
    /\ sel_in = NoSelIn
    /\ sel_out = NoSelOut

SelIdleFacts == CHOOSE f \in SelBattleFacts : f.opp_moves = <<>> /\ f.tempo_score = Rat(1, 2)

\* no call is made
SelIdle == SelFresh /\ sel_battle = SelIdleFacts /\ sel_pc = "idle"

SelInit == SelFresh /\ sel_battle \in SelBattleFacts /\ sel_pc = "ready"

(***************************************************************************)
(* The heuristics of find_best_move; each is a call on its own arguments.   *)
(***************************************************************************)
NoCall == <<>>

PolIdle == pol_in = NoCall /\ pol_out = NoCall /\ pol_pc = "idle"

OhkoIdle == ohko_in = NoCall /\ ohko_out = NoCall /\ ohko_pc = "idle"

\* no usage report is cached on the strategic context
NoReport == [given |-> FALSE]

TpIdle ==
    tp_in = NoCall /\ tp_out = NoCall /\ tp_pc = "idle" /\ sc_preview_report = NoReport

HzIdle == hz_in = NoCall /\ hz_out = NoCall /\ hz_pc = "idle"

PeIdle == pe_in = NoCall /\ pe_out = NoCall /\ pe_pc = "idle"

XpIdle == xp_in = NoCall /\ xp_out = NoCall /\ xp_pc = "idle" /\ xp_log = <<>>

\* no heuristic is called
HeurIdle == PolIdle /\ OhkoIdle /\ TpIdle /\ HzIdle /\ PeIdle /\ XpIdle

TurnIdle == turn_pc = "idle" /\ turn_clock = NoClock /\ turn_writes = <<>>

DispIdle == disp_pc = "idle" /\ disp_battles = <<>> /\ disp_budget = 0 /\ disp_futures = <<>> /\ disp_finished = <<>> /\ disp_results = <<>> /\ disp_policy = <<>>

CtxIdle == ctx_pc = "idle" /\ ctx_n = 0 /\ ctx_caller = 0 /\ ctx_local = 0 /\ ctx_heap = <<>> /\ ctx_left = <<>>

\* no battle observed yet
NoObservation == [turn |-> NoTurn]

SackIdle == sk_observed = NoObservation

WctIdle == wct_call = [n |-> 0, op |-> "none"] /\ wct_primary = <<>> /\ wct_backup = <<>> /\ wct_critical_targets = <<>> /\ wct_predicted_threats = <<>> /\ wct_report = NoCall /\ wct_threat_log = {}

OrchIdle == TurnIdle /\ DispIdle /\ CtxIdle /\ SackIdle /\ WctIdle

(***************************************************************************)
(* move_priors and the heuristic selector choose_policy_move.              *)
(***************************************************************************)
\* The battles of a heuristic choice.  Units have max_hp 100; moves carry
\* [name, current_pp], opposing moves [name, disabled]; switch_rec is what
\* get_switch_recommendation gave: "none" (it raised), "stay" or "switch";
\* priorities_raise is get_move_priorities raising.
PolMoveLists ==
    {<<>>,
     <<[name |-> "toxic", current_pp |-> 0]>>,
     <<[name |-> "tackle", current_pp |-> 0], [name |-> "thunder", current_pp |-> 0]>>,
     <<[name |-> "tackle", current_pp |-> 5], [name |-> "thunder", current_pp |-> 0]>>,
     <<[name |-> "tackle", current_pp |-> 0], [name |-> "thunder", current_pp |-> 5]>>,
     <<[name |-> "tackle", current_pp |-> 5], [name |-> "thunder", current_pp |-> 5]>>,
     <<[name |-> "swordsdance", current_pp |-> 3], [name |-> "surf", current_pp |-> 0]>>}

PolOppReserves ==
    {<<>>,
     <<[hp |-> 100, types |-> <<"water">>], [hp |-> 0, types |-> <<"flying">>]>>,
     <<[hp |-> 100, types |-> <<"water">>], [hp |-> 50, types |-> <<"flying">>]>>}

\* the risk profiles of the turn: none, or those of the active unit's moves
PolCaches ==
    {EmptyCache,
     ScoreMoves([cache |-> EmptyCache, stamp |-> EmptyStamps, queries |-> 0,
                 battle |-> [BaseBattle EXCEPT !.engine = "single"], raised |-> FALSE],
                ActiveMoves).cache}

PolBattles ==
    [user_active : BOOLEAN,
     user_hp : {40, 100},
     user_types : {<<"normal">>, <<"water", "flying">>},
     moves : PolMoveLists,
     opp_active : BOOLEAN,
     opp_types : {<<"normal">>, <<"water", "flying">>, <<"ground">>},
     opp_moves : {<<[name |-> "thunder", disabled |-> FALSE]>>,
                  <<[name |-> "thunder", disabled |-> TRUE]>>},
     opp_reserve : PolOppReserves,
     momentum : {Rat(1, 2), Rat(4, 5)},
     preserve_active : BOOLEAN,
     switch_rec : {"none", "stay", "switch"},
     priorities_raise : BOOLEAN,
     turn_cache : PolCaches]

calculate_move_effectiveness(move_name, defender_types) ==
    IF UserMoveData(move_name).known
    THEN type_effectiveness_modifier(UserMoveData(move_name).type, defender_types)
    ELSE RInt(1)

is_status_move(move_name) ==
    UserMoveData(move_name).known /\ UserMoveData(move_name).category = "status"

is_setup_move(move_name) ==
    move_name \in {"swordsdance", "dragondance", "nastyplot", "quiverdance", "calmmind",
                   "irondefense", "agility", "rockpolish", "shellsmash", "geomancy",
                   "bulkup", "curse", "coil", "honeclaws", "workup", "growth",
                   "acupressure", "bellydrum", "chargebeam", "cosmicpower"}

can_setup_safely(b) ==
    /\ b.user_active /\ b.opp_active
    /\ ~(b.user_hp * 2 < 100)
    /\ \A k \in 1..Len(b.opp_moves) :
          \/ b.opp_moves[k].disabled
          \/ RLt(calculate_move_effectiveness(b.opp_moves[k].name, b.user_types), RInt(2))

\* [battle.opponent.active] + battle.opponent.reserve
PolOpponentTeam(b) == <<[hp |-> 100, types |-> b.opp_types]>> \o b.opp_reserve

hits_opponent_team_super_effectively(move_name, opponent_team) ==
    Cardinality({k \in 1..Len(opponent_team) :
                    /\ opponent_team[k].hp > 0
                    /\ RLe(RInt(2), calculate_move_effectiveness(move_name,
                                                                 opponent_team[k].types))}) >= 2

calculate_move_priority(b, move_name) ==
    IF ~b.opp_active THEN RInt(1)
    ELSE LET effectiveness == calculate_move_effectiveness(move_name, b.opp_types)
             p1 == IF effectiveness = RInt(0) THEN Rat(1, 100)
                   ELSE IF RLt(effectiveness, Rat(1, 2)) THEN Rat(3, 10)
                   ELSE IF RLe(RInt(2), effectiveness) THEN RInt(2)
                   ELSE RInt(1)
             p2 == IF is_setup_move(move_name) /\ can_setup_safely(b)
                   THEN RMul(p1, Rat(5, 2)) ELSE p1
         IN  IF hits_opponent_team_super_effectively(move_name, PolOpponentTeam(b))
             THEN RMul(p2, Rat(3, 2)) ELSE p2

\* the priorities before normalisation, in the order of the move list
RawPriorities(b) ==
    [k \in 1..Len(b.moves) |->
        <<b.moves[k].name,
          IF b.moves[k].current_pp <= 0 THEN Rat(1, 100)
          ELSE calculate_move_priority(b, b.moves[k].name)>>]

get_move_priorities(b) ==
    IF ~b.user_active THEN <<>>
    ELSE LET priorities == RawPriorities(b)
             total == RSumSeq(Weights(priorities))
         IN  IF RLt(RInt(0), total)
             THEN [k \in 1..Len(priorities) |->
                      <<priorities[k][1], RDiv(priorities[k][2], total)>>]
             ELSE priorities

should_strongly_consider_switching(b) ==
    /\ b.user_active /\ b.opp_active
    /\ \/ ~\E k \in 1..Len(b.moves) :
              /\ b.moves[k].current_pp > 0
              /\ ~is_status_move(b.moves[k].name)
              /\ RLe(RInt(1), calculate_move_effectiveness(b.moves[k].name, b.opp_types))
       \/ \E k \in 1..Len(b.opp_moves) :
              /\ ~b.opp_moves[k].disabled
              /\ RLe(RInt(4), calculate_move_effectiveness(b.opp_moves[k].name,
                                                           b.user_types))

\* choose_policy_move.score
PolicyScore(b, item) ==
    LET profile == b.turn_cache[item[1]]
    IN  IF item[1] \in DOMAIN b.turn_cache /\ profile # NoProfile
        THEN IF RLt(Rat(6, 10), b.momentum)
             THEN RSub(item[2], profile.fail_chance)
             ELSE RAdd(item[2], RDiv(profile.expected_value, RInt(150)))
        ELSE item[2]

\* max(items, key=score): the first item no other item outscores
FirstMax(b, items) ==
    LET best == CHOOSE k \in 1..Len(items) :
                    /\ \A j \in 1..Len(items) :
                          RLe(PolicyScore(b, items[j]), PolicyScore(b, items[k]))
                    /\ \A j \in 1..(k - 1) :
                          RLt(PolicyScore(b, items[j]), PolicyScore(b, items[k]))
    IN  items[best][1]

SwitchToken == "switch p2"

choose_policy_move(b, move_priorities) ==
    IF /\ b.switch_rec = "switch"
       /\ \/ b.user_active /\ b.preserve_active
          \/ should_strongly_consider_switching(b)
    THEN SwitchToken
    ELSE IF move_priorities = <<>> /\ b.user_active /\ b.moves # <<>>
    THEN b.moves[1].name
    ELSE IF move_priorities = <<>> THEN "struggle"
    ELSE FirstMax(b, move_priorities)

\* find_best_move 546-601 on the time-pressure path: the priorities, then the
\* heuristic choice
PolChoose ==
    /\ pol_pc = "ready"
    /\ \E move_priorities \in
            {IF pol_in.priorities_raise THEN <<>> ELSE get_move_priorities(pol_in)} :
          pol_out' = [choice |-> choose_policy_move(pol_in, move_priorities),
                      move_priorities |-> move_priorities]
    /\ pol_pc' = "done"
    /\ UNCHANGED pol_in

PolInit == pol_in \in PolBattles /\ pol_out = NoCall /\ pol_pc = "ready"

(***************************************************************************)
(* check_ohko_risk and the search budget of the turn.                      *)
(***************************************************************************)
\* What poke_engine_get_damage_rolls does for one opposing move against the
\* switch-in: it raises, returns no rolls, or returns a damage range.
OhkoLookups ==
    {[raises |-> TRUE, rolls |-> <<>>],
     [raises |-> FALSE, rolls |-> <<>>],
     [raises |-> FALSE, rolls |-> <<10, 15>>],
     [raises |-> FALSE, rolls |-> <<15, 20>>],
     [raises |-> FALSE, rolls |-> <<90, 120>>]}

OhkoMoves == [disabled : BOOLEAN, lookup : OhkoLookups]

OhkoMoveLists ==
    {<<>>} \cup {<<m>> : m \in OhkoMoves} \cup {<<m, n>> : m \in OhkoMoves, n \in OhkoMoves}

\* The battle of the turn: user_hp is the HP of the user's active unit (0 on
\* a forced switch after a faint); search_time_per_battle is the budget the
\* time manager allotted.
OhkoBattles ==
    {b \in [team_preview : BOOLEAN,
            opp_active : BOOLEAN,
            user_hp : {0, 20, 100},
            opp_moves : OhkoMoveLists,
            search_time_per_battle : {75, 100, 150}] :
        ~b.opp_active => b.opp_moves = <<>>}

OhkoThreatsWithDisabled(b) ==
    SelectSeq(b.opp_moves,
              LAMBDA move : /\ ~move.lookup.raises
                            /\ Len(move.lookup.rolls) >= 2
                            /\ move.lookup.rolls[2] >= b.user_hp)

\* the opposing moves check_ohko_risk records as threats
OhkoThreats(b) ==
    SelectSeq(b.opp_moves,
              LAMBDA move : /\ ~move.disabled
                            /\ ~move.lookup.raises
                            /\ Len(move.lookup.rolls) >= 2
                            /\ move.lookup.rolls[2] >= b.user_hp)

\* the first value returned: "None", "True" or "False"
check_ohko_risk(b) ==
    IF b.team_preview \/ ~b.opp_active THEN "None"
    ELSE IF b.user_hp <= 0 THEN "None"
    ELSE IF OhkoThreats(b) # <<>> THEN "True" ELSE "False"

\* int(search_time_per_battle * 1.5)
BoostedBudget(search_time_per_battle) == (search_time_per_battle * 3) \div 2

\* find_best_move 527-544
OhkoCheck ==
    /\ ohko_pc = "ready"
    /\ ohko_out' = [has_ohko_risk |-> check_ohko_risk(ohko_in),
                    search_time_per_battle |->
                        IF check_ohko_risk(ohko_in) = "True"
                        THEN BoostedBudget(ohko_in.search_time_per_battle)
                        ELSE ohko_in.search_time_per_battle]
    /\ ohko_pc' = "done"
    /\ UNCHANGED ohko_in

OhkoInit == ohko_in \in OhkoBattles /\ ohko_out = NoCall /\ ohko_pc = "ready"

(***************************************************************************)
(* UsageScout and optimize_team_preview_order.                             *)
(***************************************************************************)
MaxPreviews == 2

\* Opposing units at team preview.  log_usage is math.log(raw_usage + 1);
\* hazard_weight, pivot_weight and setup_weight are the summed frequencies of
\* the unit's hazard, pivot and setup moves in the usage statistics.
TpOppUnits ==
    {[name |-> "p1", types |-> <<"water">>, speed |-> 100, log_usage |-> Rat(7, 10),
      hazard_weight |-> RInt(0), pivot_weight |-> RInt(0), setup_weight |-> RInt(0)],
     [name |-> "p2", types |-> <<"flying">>, speed |-> 60, log_usage |-> RInt(5),
      hazard_weight |-> Rat(1, 2), pivot_weight |-> RInt(0), setup_weight |-> Rat(1, 2)],
     [name |-> "p3", types |-> <<"water", "rock">>, speed |-> 40, log_usage |-> RInt(2),
      hazard_weight |-> RInt(0), pivot_weight |-> Rat(1, 2), setup_weight |-> RInt(0)],
     [name |-> "p4", types |-> <<"water", "electric">>, speed |-> 100,
      log_usage |-> Rat(7, 10), hazard_weight |-> RInt(0), pivot_weight |-> RInt(0),
      setup_weight |-> RInt(0)]}

TpOppTeams ==
    {<<u>> : u \in TpOppUnits} \cup
    {t \in {<<u, v>> : u \in TpOppUnits, v \in TpOppUnits} : t[1] # t[2]}

\* Own units: "x" holds thunder, super effective against every opposing unit
\* above, and the setup move swordsdance; "y" holds tackle only.
TpOwnTypes == {<<"electric">>, <<"water", "flying">>, <<"ground", "steel">>}

TpUnitX == [name : {"x"}, types : TpOwnTypes, speed : {50, 300},
            moves : {<<"thunder", "swordsdance">>}]

TpUnitY == [name : {"y"}, types : TpOwnTypes, speed : {50, 300},
            moves : {<<"tackle">>}]

TpOwnTeams ==
    {<<x, y>> : x \in TpUnitX, y \in TpUnitY} \cup {<<y, x>> : x \in TpUnitX, y \in TpUnitY}

\* scout_raises: UsageScout().build_preview_report raises
TpBattles == [our_team : TpOwnTeams, opp_team : TpOppTeams, scout_raises : BOOLEAN]

\* the team previews of a later match played on the same strategic context
TpRematches ==
    {b \in TpBattles :
        /\ b.our_team[1].name = "x"
        /\ \A k \in 1..Len(b.our_team) :
               b.our_team[k].types = <<"electric">> /\ b.our_team[k].speed = 50
        /\ b.opp_team[1].name = "p3"
        /\ ~b.scout_raises}

\* dict.get(name, default) on a mapping kept as a sequence of <<name, value>>
MapGet(mapping, name, default) ==
    IF \E k \in 1..Len(mapping) : mapping[k][1] = name
    THEN mapping[CHOOSE k \in 1..Len(mapping) : mapping[k][1] = name][2]
    ELSE default

LeadScore(pokemon) ==
    LET speed_bonus == Rat(pokemon.speed, 200)
        score == RMul(RAdd(pokemon.log_usage, RInt(1)),
                      RAdd(RAdd(RAdd(RInt(1), RMul(pokemon.hazard_weight, Rat(18, 10))),
                                RMul(pokemon.pivot_weight, Rat(12, 10))),
                           speed_bonus))
    IN  RMax(score, Rat(5, 100))

predict_lead_probabilities(opponent_team) ==
    LET scores == [k \in 1..Len(opponent_team) |->
                      <<opponent_team[k].name, LeadScore(opponent_team[k])>>]
        total == RSumSeq(Weights(scores))
    IN  IF scores = <<>> \/ total = RInt(0)
        THEN [k \in 1..Len(opponent_team) |->
                 <<opponent_team[k].name, Rat(1, Len(opponent_team))>>]
        ELSE [k \in 1..Len(scores) |-> <<scores[k][1], RDiv(scores[k][2], total)>>]

ThreatScore(pokemon) ==
    RAdd(RAdd(RMul(pokemon.setup_weight, Rat(3, 2)), RMul(pokemon.hazard_weight, Rat(1, 2))),
         RDiv(pokemon.log_usage, RInt(10)))

identify_win_conditions(opponent_team) ==
    LET listed == SelectSeq(opponent_team,
                            LAMBDA pokemon : RLt(Rat(2, 10), ThreatScore(pokemon)))
    IN  [k \in 1..Len(listed) |-> <<listed[k].name, ThreatScore(listed[k])>>]

build_preview_report(b) ==
    [given |-> TRUE,
     leads |-> predict_lead_probabilities(b.opp_team),
     threats |-> identify_win_conditions(b.opp_team)]

calculate_matchup_score(our_pkmn, opp_pkmn) ==
    LET attacks == {k \in 1..Len(our_pkmn.moves) :
                       /\ UserMoveData(our_pkmn.moves[k]).known
                       /\ UserMoveData(our_pkmn.moves[k]).category \in {"physical", "special"}}
        eff(k) == type_effectiveness_modifier(UserMoveData(our_pkmn.moves[k]).type,
                                              opp_pkmn.types)
        our_offensive_score ==
            IF attacks = {} THEN RInt(0)
            ELSE eff(CHOOSE k \in attacks : \A j \in attacks : RLe(eff(j), eff(k)))
        defensive_modifier(our_type) ==
            [k \in 1..Len(opp_pkmn.types) |->
                type_effectiveness_modifier(opp_pkmn.types[k], <<our_type>>)]
        our_defensive_score ==
            RSumSeq([k \in 1..Len(our_pkmn.types) |->
                        RSub(RInt(2), RProdSeq(defensive_modifier(our_pkmn.types[k])))])
    IN  RAdd(RMul(our_offensive_score, RInt(10)), RMul(our_defensive_score, RInt(5)))

\* the report the call works with: the cached one, a new one, or {} on failure
ScoutReport(b, cached) ==
    IF cached.given THEN cached
    ELSE IF b.scout_raises THEN [given |-> TRUE, leads |-> <<>>, threats |-> <<>>]
    ELSE build_preview_report(b)

\* weight_map = lead_probs or the uniform mapping over the opposing team
WeightMap(b, scout_report) ==
    IF scout_report.leads # <<>> THEN scout_report.leads
    ELSE [k \in 1..Len(b.opp_team) |-> <<b.opp_team[k].name, Rat(1, Len(b.opp_team))>>]

TeamPreviewScore(b, scout_report, our_pkmn) ==
    LET weight_map == WeightMap(b, scout_report)
        term(opp_pkmn) ==
            LET weight == MapGet(weight_map, opp_pkmn.name, RInt(0))
                matchup == calculate_matchup_score(our_pkmn, opp_pkmn)
                threat == MapGet(scout_report.threats, opp_pkmn.name, RInt(0))
            IN  RAdd(RMul(matchup, weight), RMul(RMul(threat, matchup), Rat(1, 10)))
    IN  RAdd(RSumSeq([k \in 1..Len(b.opp_team) |-> term(b.opp_team[k])]),
             Rat(our_pkmn.speed, 100))

\* the slot optimize_team_preview_order returns, with the weights it used
optimize_team_preview_order(b, scout_report) ==
    LET lead_scores == [k \in 1..Len(b.our_team) |->
                           TeamPreviewScore(b, scout_report, b.our_team[k])]
        best == CHOOSE k \in 1..Len(lead_scores) :
                    /\ \A j \in 1..Len(lead_scores) : RLe(lead_scores[j], lead_scores[k])
                    /\ \A j \in 1..(k - 1) : RLt(lead_scores[j], lead_scores[k])
    IN  [lead |-> best,
         lead_name |-> b.our_team[best].name,
         weights |-> [k \in 1..Len(b.opp_team) |->
                         MapGet(WeightMap(b, scout_report), b.opp_team[k].name, RInt(0))],
         report_cached |-> sc_preview_report.given]

\* find_best_move 473-477 on a team-preview battle
TpPreview ==
    /\ tp_pc = "ready"
    /\ \E scout_report \in {ScoutReport(tp_in.battle, sc_preview_report)} :
          /\ tp_out' = optimize_team_preview_order(tp_in.battle, scout_report)
          /\ sc_preview_report' =
                IF sc_preview_report.given \/ tp_in.battle.scout_raises
                THEN sc_preview_report ELSE scout_report
    /\ tp_pc' = "done"
    /\ UNCHANGED tp_in

\* StrategicContext.reset_for_new_battle, then the team preview of the next
\* match
TpNewBattle ==
    /\ tp_pc = "done"
    /\ tp_in.n < MaxPreviews
    /\ \E b \in TpRematches : tp_in' = [n |-> tp_in.n + 1, battle |-> b]
    /\ tp_pc' = "ready"
    /\ UNCHANGED <<tp_out, sc_preview_report>>

TpInit ==
    /\ \E b \in TpBattles : tp_in = [n |-> 1, battle |-> b]
    /\ tp_out = NoCall
    /\ tp_pc = "ready"
    /\ sc_preview_report = NoReport

(***************************************************************************)
(* The risk profile of a switch, over every hazard layout and target.      *)
(***************************************************************************)
MaxSpikesLayers == 4
MaxToxicSpikesLayers == 3

HzSideConditions ==
    [stealthrock : {0, 1}, spikes : 0..MaxSpikesLayers, toxicspikes : 0..MaxToxicSpikesLayers]

HzTargets ==
    [types : {<<"normal">>, <<"fire", "flying">>, <<"ground">>, <<"poison">>, <<"steel">>},
     max_hp : {200},
     item : {"none", "heavydutyboots", "airballoon"},
     knocked_off : BOOLEAN,
     ability : {"none", "levitate"},
     terastallized : BOOLEAN,
     volatile_statuses : {{}, {"magnetrise"}},
     status : {"none", "psn"}]

\* the battles whose "switch 2" candidate is scored
HzBattles ==
    {[BaseBattle EXCEPT !.side_conditions = h, !.reserve = t, !.momentum = m] :
        h \in HzSideConditions, t \in HzTargets, m \in {Rat(3, 10), Rat(1, 2)}}

\* the switch branch of the scoring loop of evaluate_moves
HzScoreSwitch ==
    /\ hz_pc = "ready"
    /\ hz_out' = SwitchProfile(hz_in, "switch 2")
    /\ hz_pc' = "done"
    /\ UNCHANGED hz_in

HzInit == hz_in \in HzBattles /\ hz_out = NoCall /\ hz_pc = "ready"

(***************************************************************************)
(* fp/search/position_eval.py: the momentum, tempo and safety scores of    *)
(* get_position_metrics.                                                   *)
(***************************************************************************)
NoActive == [present |-> FALSE]

PeBoostStats == {"attack", "special-attack", "speed"}

\* a unit of the position evaluator: HP, typing, boost stages, moves, speed
PeActiveUnits ==
    [present : {TRUE},
     hp : {0, 30, 400},
     max_hp : {400},
     types : {<<"normal">>},
     boosts : {[s \in PeBoostStats |-> IF s = "attack" THEN a
                                       ELSE IF s = "speed" THEN sp ELSE 0] :
               a \in {0, 6}, sp \in {0, 6}},
     moves : {<<"tackle">>, <<"swordsdance", "extremespeed">>},
     speed : {100}]

PeBenchUnit(hp, types) ==
    [present |-> TRUE, hp |-> hp, max_hp |-> 400, types |-> types,
     boosts |-> [s \in PeBoostStats |-> 0], moves |-> <<"tackle">>, speed |-> 100]

\* reserves: none, five healthy units, five fainted units
PeReserves ==
    {<<>>,
     [k \in 1..5 |-> PeBenchUnit(400, IF k = 1 THEN <<"fire", "flying">> ELSE <<"normal">>)],
     [k \in 1..5 |-> PeBenchUnit(0, <<"normal">>)]}

PeSides ==
    [active : PeActiveUnits \cup {NoActive},
     reserve : PeReserves,
     stealthrock : {0, 1}]

PeBattles ==
    {[user |-> [u EXCEPT !.active = IF u.active.present
                                    THEN [u.active EXCEPT !.speed = user_speed]
                                    ELSE u.active],
      opponent |-> o] :
        u \in PeSides, o \in PeSides, user_speed \in {50, 150}}

PE_PRIORITY_MOVES == {"iceshard", "extremespeed", "suckerpunch", "shadowsneak", "machpunch",
                      "jetpunch", "aquajet", "bulletpunch", "firstimpression"}

SETUP_THREATS == {"dragondance", "swordsdance", "nastyplot", "shellsmash", "acidarmor",
                  "irondefense", "quiverdance", "calmmind", "bulkup"}

PeSetupMoves == {"swordsdance", "dragondance", "nastyplot", "quiverdance", "calmmind",
                 "shellsmash", "geomancy"}

battler_team(side) ==
    IF side.active.present THEN <<side.active>> \o side.reserve ELSE side.reserve

calculate_stealth_rock_damage(pkmn) ==
    IF ~pkmn.present \/ pkmn.types = <<>> THEN RInt(0)
    ELSE RDiv(type_effectiveness_modifier("rock", pkmn.types), RInt(8))

\* effective HP of one side: HP minus the stealth rock damage of live units
EffectiveHp(side) ==
    LET team == battler_team(side)
        one(pkmn) ==
            IF pkmn.present /\ pkmn.max_hp > 0
            THEN IF side.stealthrock > 0 /\ pkmn.hp > 0
                 THEN RSub(RInt(pkmn.hp),
                           RMin(RMul(calculate_stealth_rock_damage(pkmn), RInt(pkmn.max_hp)),
                                RInt(pkmn.hp)))
                 ELSE RInt(pkmn.hp)
            ELSE RInt(0)
    IN  RSumSeq([k \in 1..Len(team) |-> one(team[k])])

calculate_hp_advantage(b) ==
    LET our_effective_hp == EffectiveHp(b.user)
        opp_effective_hp == EffectiveHp(b.opponent)
    IN  [our_hp |-> our_effective_hp,
         opp_hp |-> opp_effective_hp,
         hp_diff |-> RSub(our_effective_hp, opp_effective_hp),
         hp_ratio |-> IF RLt(RInt(0), opp_effective_hp)
                      THEN RDiv(our_effective_hp, opp_effective_hp) ELSE RInt(2)]

assess_sweep_potential(side) ==
    IF ~side.active.present \/ side.active.hp = 0 THEN RInt(0)
    ELSE LET a == side.active
             boost_value == a.boosts["attack"] + a.boosts["special-attack"] + a.boosts["speed"]
             has_setup == \E k \in 1..Len(a.moves) : a.moves[k] \in PeSetupMoves
             hp_percentage == IF a.max_hp > 0 THEN Rat(a.hp, a.max_hp) ELSE RInt(0)
             s1 == IF boost_value >= 2 THEN Rat(1, 2) ELSE RInt(0)
             s2 == IF boost_value >= 4 THEN Rat(3, 10) ELSE RInt(0)
             s3 == IF has_setup /\ boost_value >= 1 THEN Rat(1, 5) ELSE RInt(0)
             s4 == IF RLt(Rat(7, 10), hp_percentage) /\ boost_value >= 2
                   THEN Rat(3, 10) ELSE RInt(0)
         IN  RMin(RSumSeq(<<s1, s2, s3, s4>>), RInt(1))

AliveCount(side) ==
    LET team == <<side.active>> \o side.reserve
    IN  Cardinality({k \in 1..Len(team) : team[k].present /\ team[k].hp > 0})

\* calculate_momentum before the final clamp
RawMomentum(b) ==
    LET hp_metrics == calculate_hp_advantage(b)
        pokemon_diff == AliveCount(b.user) - AliveCount(b.opponent)
        has_user_hazards == b.opponent.stealthrock > 0
        has_opp_hazards == b.user.stealthrock > 0
        hazards == IF has_user_hazards /\ ~has_opp_hazards THEN Rat(1, 10)
                   ELSE IF has_opp_hazards /\ ~has_user_hazards THEN Rat(-1, 10)
                   ELSE RInt(0)
        user_sweep == assess_sweep_potential(b.user)
        opp_sweep == assess_sweep_potential(b.opponent)
    IN  RSumSeq(<<Rat(1, 2),
                  RMul(RDiv(hp_metrics.hp_diff, RInt(500)), Rat(3, 10)),
                  Rat(pokemon_diff, 10),
                  hazards,
                  RMul(RSub(user_sweep, opp_sweep), Rat(1, 5))>>)

Unclamped(x) == x

Clamp01(x) == RMax(RInt(0), RMin(RInt(1), x))

calculate_momentum(b) == Clamp01(RawMomentum(b))

\* total stealth rock damage fraction over the live units of one side
HazardDamage(side) ==
    LET team == battler_team(side)
    IN  IF side.stealthrock > 0
        THEN RSumSeq([k \in 1..Len(team) |->
                 IF team[k].present /\ team[k].max_hp > 0 /\ team[k].hp > 0
                 THEN calculate_stealth_rock_damage(team[k]) ELSE RInt(0)])
        ELSE RInt(0)

evaluate_hazard_pressure(b) ==
    LET user_hazard_damage == HazardDamage(b.user)
        opp_hazard_damage == HazardDamage(b.opponent)
    IN  [user_hazard_damage |-> user_hazard_damage,
         opp_hazard_damage |-> opp_hazard_damage,
         hazard_advantage |-> RSub(opp_hazard_damage, user_hazard_damage)]

assess_speed_control(b) ==
    IF ~b.user.active.present \/ ~b.opponent.active.present
    THEN [has_speed_control |-> FALSE, speed_advantage |-> 0]
    ELSE [has_speed_control |-> b.user.active.speed > b.opponent.active.speed,
          speed_advantage |-> b.user.active.boosts["speed"] - b.opponent.active.boosts["speed"]]

evaluate_tempo_control(b, speed_metrics, hazard_metrics) ==
    LET adv == hazard_metrics.hazard_advantage
        f1 == IF RLt(RInt(0), adv) THEN Rat(3, 10) ELSE RInt(0)
        r1 == IF ~RLt(RInt(0), adv) /\ RLt(adv, RInt(0)) THEN Rat(3, 10) ELSE RInt(0)
        f2 == IF speed_metrics.has_speed_control THEN Rat(1, 5) ELSE RInt(0)
        r2 == IF speed_metrics.has_speed_control THEN RInt(0) ELSE Rat(1, 5)
        f3 == IF b.user.active.present /\ b.user.active.boosts["attack"] >= 2
              THEN Rat(3, 10) ELSE RInt(0)
        r3 == IF b.opponent.active.present /\ b.opponent.active.boosts["attack"] >= 2
              THEN Rat(3, 10) ELSE RInt(0)
        forcing == RSumSeq(<<f1, f2, f3>>)
        reactive == RSumSeq(<<r1, r2, r3>>)
    IN  [tempo_score |-> Clamp01(RSub(RAdd(Rat(1, 2), forcing), reactive)),
         forcing |-> forcing,
         reactive |-> reactive]

evaluate_positional_safety(b) ==
    IF ~b.user.active.present \/ ~b.opponent.active.present
    THEN [safe_to_setup |-> TRUE, opponent_setup_window |-> FALSE, safety_score |-> Rat(1, 2)]
    ELSE LET ua == b.user.active
             oa == b.opponent.active
             opponent_setup == \E k \in 1..Len(oa.moves) : oa.moves[k] \in SETUP_THREATS
             our_priority == \E k \in 1..Len(ua.moves) : ua.moves[k] \in PE_PRIORITY_MOVES
             hp_ratio == IF ua.max_hp # 0 THEN Rat(ua.hp, ua.max_hp) ELSE RInt(0)
             safety_score ==
                 RSumSeq(<<Rat(1, 2),
                           IF opponent_setup THEN Rat(-1, 5) ELSE RInt(0),
                           IF RLt(hp_ratio, Rat(2, 5)) THEN Rat(-1, 5) ELSE RInt(0),
                           IF our_priority THEN Rat(1, 10) ELSE RInt(0)>>)
         IN  [safe_to_setup |-> RLt(Rat(1, 2), hp_ratio) /\ ~opponent_setup,
              opponent_setup_window |-> opponent_setup /\ RLt(hp_ratio, Rat(1, 2)),
              safety_score |-> Clamp01(safety_score)]

\* the three scores of get_position_metrics(battle)
PositionScores(b) ==
    LET hazard_pressure == evaluate_hazard_pressure(b)
        speed_control == assess_speed_control(b)
    IN  [tempo |-> evaluate_tempo_control(b, speed_control, hazard_pressure),
         positional_safety |-> evaluate_positional_safety(b),
         momentum |-> calculate_momentum(b),
         raw_momentum |-> RawMomentum(b)]

PeEvaluate ==
    /\ pe_pc = "ready"
    /\ pe_out' = PositionScores(pe_in)
    /\ pe_pc' = "done"
    /\ UNCHANGED pe_in

PeInit == pe_in \in PeBattles /\ pe_out = NoCall /\ pe_pc = "ready"

(***************************************************************************)
(* fp/strategy/experience.py: ExperienceTracker.record_turn, and the two   *)
(* places of find_best_move that call it.                                  *)
(***************************************************************************)
MaxRecordCalls == 2

\* where the body of record_turn fails: reading battle.turn, reading a risk
\* profile, creating the directory, opening the file, encoding, writing
RecordFailures == {"none", "turn", "profile", "mkdir", "open", "dumps", "write"}

XpPaths == {"fallback", "search"}

XpChoices == {"tackle", "switch 2"}

XpCalls(n) ==
    [n : {n},
     path : XpPaths,
     choice : XpChoices,
     turn_cache_filled : BOOLEAN,
     failure : RecordFailures]

\* the statements of the try block, in order, with the failure that stops each
RecordSteps(call) ==
    <<"turn">>
    \o (IF call.turn_cache_filled THEN <<"profile">> ELSE <<>>)
    \o <<"mkdir", "open", "dumps", "write">>

\* the try block: completes with the line appended, or raises at a statement
RecordBody(call, log) ==
    IF SeqHas(RecordSteps(call), call.failure)
    THEN [raised |-> TRUE, log |-> log]
    ELSE [raised |-> FALSE,
          log |-> Append(log, [turn |-> call.n,
                               selected_move |-> call.choice,
                               risk |-> call.turn_cache_filled])]

\* a handler that lets the exception through
Propagate(outcome) == outcome

\* except Exception: pass
ExceptPass(outcome) == [outcome EXCEPT !.raised = FALSE]

record_turn(call, log) == ExceptPass(RecordBody(call, log))

XpRecordTurn ==
    /\ xp_pc = "ready"
    /\ \E outcome \in {record_turn(xp_in, xp_log)} :
        /\ xp_out' = [raised |-> outcome.raised, ret |-> "None"]
        /\ xp_log' = outcome.log
    /\ xp_pc' = "recorded"
    /\ UNCHANGED xp_in

\* return fallback_choice / return choice, reached unless record_turn raised
XpReturn ==
    /\ xp_pc = "recorded"
    /\ xp_out' = IF xp_out.raised THEN xp_out ELSE [xp_out EXCEPT !.ret = xp_in.choice]
    /\ xp_pc' = "done"
    /\ UNCHANGED <<xp_in, xp_log>>

\* the next call of find_best_move
XpNextTurn ==
    /\ xp_pc = "done"
    /\ xp_in.n < MaxRecordCalls
    /\ xp_in' \in XpCalls(xp_in.n + 1)
    /\ xp_out' = NoCall
    /\ xp_pc' = "ready"
    /\ UNCHANGED xp_log

XpInit == xp_in \in XpCalls(1) /\ xp_out = NoCall /\ xp_pc = "ready" /\ xp_log = <<>>

(***************************************************************************)
(* fp/search/main.py: the TimeManager calls of one find_best_move call,    *)
(* past team preview and with a supported battle type.                     *)
(***************************************************************************)
\* _sync_clock assigns bank_ms exactly when the clock is known
SyncWrites(time_remaining) == IF time_remaining = NoClock THEN <<>> ELSE <<"_sync_clock">>

\* update_position_metrics(position_metrics), which hands the metrics to the
\* TimeManager; bank_ms is not assigned
FbmUpdateMetrics ==
    /\ turn_pc = "start"
    /\ \E m \in {x \in MetricsInputs : x.given} : update_from_metrics(m)
    /\ turn_pc' = "observed"
    /\ UNCHANGED <<turn_clock, turn_writes>>

\* search_time_num_battles_*: the one allocate_search_time call of the turn
FbmSearchTime ==
    /\ turn_pc = "observed"
    /\ \E ua \in AliveCounts, oa \in AliveCounts, c \in Criticalities :
           allocate_search_time(turn_clock, ua, oa, c)
    /\ turn_writes' = turn_writes \o SyncWrites(turn_clock) \o <<"allocate_search_time">>
    /\ turn_pc' = "allocated"
    /\ UNCHANGED turn_clock

\* the should_skip_deep_search check, on the same battle
FbmSkipCheck ==
    /\ turn_pc = "allocated"
    /\ should_skip_deep_search(turn_clock, FALSE)
    /\ turn_writes' = turn_writes \o SyncWrites(turn_clock)
    /\ turn_pc' = "checked"
    /\ UNCHANGED turn_clock

\* the call returns; the next call comes with the clock of its own battle
FbmNextCall ==
    /\ turn_pc = "checked"
    /\ tm_call.n < MaxTimeCalls
    /\ turn_clock' \in ClockValues
    /\ turn_writes' = <<>>
    /\ turn_pc' = "start"
    /\ UNCHANGED tm_vars

TurnInit == turn_pc = "start" /\ turn_clock \in ClockValues /\ turn_writes = <<>>

(***************************************************************************)
(* fp/search/main.py: the fan-out of one search task per determinization   *)
(* and the fan-in of their results.                                        *)
(***************************************************************************)
\* the determinizations of one turn; a worker given a stalling one never returns
DispBattles ==
    UNION {[1..n -> [sample_chance : SampleChances, stalls : BOOLEAN]] : n \in 1..MaxDet}

SearchBudgets == {50, 100}

NoResult == <<>>

\* the future whose result fills position k of the list in arrival order
FutureInFinishOrder(k, finished) == IF k <= Len(finished) THEN finished[k] ELSE 0

\* the future whose result fills position k of mcts_results: the k-th submitted
FutureOf(k, finished) == k

\* executor.submit(get_result_from_mcts, state, search_time_per_battle, index)
DispSubmit ==
    /\ disp_pc = "submitting"
    /\ Len(disp_futures) < Len(disp_battles)
    /\ disp_futures' = Append(disp_futures,
                              [search_time_ms |-> disp_budget,
                               index |-> Len(disp_futures),
                               state |-> "running",
                               visits |-> NoResult])
    /\ disp_pc' = IF Len(disp_futures) + 1 = Len(disp_battles) THEN "collecting"
                  ELSE "submitting"
    /\ UNCHANGED <<disp_battles, disp_budget, disp_finished, disp_results, disp_policy>>

\* get_result_from_mcts returns in a worker process
WorkerFinish ==
    \E k \in 1..Len(disp_futures), visits \in VisitProfiles :
        /\ disp_futures[k].state = "running"
        /\ ~disp_battles[k].stalls
        /\ disp_futures' = [disp_futures EXCEPT ![k].state = "done", ![k].visits = visits]
        /\ disp_finished' = Append(disp_finished, k)
        /\ UNCHANGED <<disp_pc, disp_battles, disp_budget, disp_results, disp_policy>>

\* one element of [(fut.result(), chance, index) for (fut, chance, index) in futures]:
\* blocks until that future is done
DispCollect ==
    /\ disp_pc = "collecting"
    /\ Len(disp_results) < Len(disp_futures)
    /\ \E k \in {Len(disp_results) + 1} :
        \E f \in {FutureOf(k, disp_finished)} :
            /\ f \in 1..Len(disp_futures)
            /\ disp_futures[f].state = "done"
            /\ disp_results' = Append(disp_results,
                                      [visits |-> disp_futures[f].visits,
                                       sample_chance |-> disp_battles[k].sample_chance])
    /\ UNCHANGED <<disp_pc, disp_battles, disp_budget, disp_futures, disp_finished, disp_policy>>

\* select_move_from_mcts_results(battle, mcts_results, ...): the aggregation
DispSelect ==
    /\ disp_pc = "collecting"
    /\ Len(disp_results) = Len(disp_futures)
    /\ disp_policy' = Aggregate(disp_results)
    /\ disp_pc' = "done"
    /\ UNCHANGED <<disp_battles, disp_budget, disp_futures, disp_finished, disp_results>>

DispInit ==
    /\ disp_pc = "submitting"
    /\ disp_battles \in DispBattles
    /\ disp_budget \in SearchBudgets
    /\ disp_futures = <<>> /\ disp_finished = <<>> /\ disp_results = <<>> /\ disp_policy = <<>>

(***************************************************************************)
(* fp/search/main.py: how find_best_move obtains the strategic context of  *)
(* the battle object it is handed, call after call of one match.           *)
(***************************************************************************)
MaxMatchCalls == 3

\* getattr(battle, "strategic_context", None) is None
NoHandle == 0

\* StrategicContext(): what a newly created context holds
FreshContext ==
    [turns_observed |-> 0, bank_ms |-> search_time_ms * 15,
     cache_turn |-> NoTurn, last_position_metrics |-> "None"]

CtxMetrics == {"m1", "m2"}

CtxAllocations == {min_allocation_ms, 140}

\* the object a handle created by find_best_move is attached to: the deep
\* copy made at the top of the call, so the caller's battle keeps what it had
AttachToCopy(caller, handle) == caller

\* strategic_context = getattr(...); battle = deepcopy(battle); create a
\* context if there is none; battle.strategic_context = strategic_context
CtxEnter ==
    /\ ctx_pc = "call"
    /\ IF ctx_caller = NoHandle
       THEN \E h \in {Len(ctx_heap) + 1} :
               /\ ctx_heap' = Append(ctx_heap, FreshContext)
               /\ ctx_local' = h
               /\ ctx_caller' = AttachToCopy(ctx_caller, h)
       ELSE /\ ctx_local' = ctx_caller
            /\ UNCHANGED <<ctx_heap, ctx_caller>>
    /\ ctx_pc' = "entered"
    /\ UNCHANGED <<ctx_n, ctx_left>>

\* observe_turn, update_position_metrics, evaluate_moves, allocate_search_time
\* on battle.strategic_context, then the return
CtxUpdate ==
    /\ ctx_pc = "entered"
    /\ \E m \in CtxMetrics, a \in CtxAllocations :
        \E after \in {[turns_observed |-> ctx_heap[ctx_local].turns_observed + 1,
                       bank_ms |-> IF ctx_heap[ctx_local].bank_ms > a
                                   THEN ctx_heap[ctx_local].bank_ms - a ELSE 0,
                       cache_turn |-> ctx_n,
                       last_position_metrics |-> m]} :
            /\ ctx_heap' = [ctx_heap EXCEPT ![ctx_local] = after]
            /\ ctx_left' = after
    /\ ctx_pc' = "updated"
    /\ UNCHANGED <<ctx_n, ctx_caller, ctx_local>>

\* the caller calls find_best_move again with the same battle object
CtxNextCall ==
    /\ ctx_pc = "updated"
    /\ ctx_n < MaxMatchCalls
    /\ ctx_n' = ctx_n + 1
    /\ ctx_pc' = "call"
    /\ UNCHANGED <<ctx_caller, ctx_local, ctx_heap, ctx_left>>

\* match start: the battle object carries a context created with it, or none
CtxInit ==
    /\ ctx_pc = "call" /\ ctx_n = 1 /\ ctx_local = NoHandle
    /\ ctx_left = FreshContext
    /\ \/ ctx_caller = NoHandle /\ ctx_heap = <<>>
       \/ ctx_caller = 1 /\ ctx_heap = <<FreshContext>>

(***************************************************************************)
(* Sack tracking: observe_turn on battles that differ in the turn, the     *)
(* active unit and the units' hit points only                              *)
(***************************************************************************)

SackBattles ==
    {b \in ObservedBattles :
        /\ b.opp_active # NoUnit
        /\ ~b.opp_terastallized
        /\ b.opp_last_move = "tackle" /\ b.user_last_move = "tackle"
        /\ b.same_move_turn /\ ~b.ds_delta_high}

SackObserve ==
    /\ om_call.n < MaxObserveCalls
    /\ \E b \in SackBattles : ObserveTurn(b) /\ sk_observed' = b

SackInit == sk_observed = NoObservation

(***************************************************************************)
(* fp/strategy/wincon.py: WinConditionTracker.  do_not_sack is the         *)
(* variable wc_do_not_sack; predicted_opponent_tera and predicted_leads    *)
(* are never supplied here and stay empty.                                 *)
(***************************************************************************)
MaxWinconCalls == 3

SETUP_MOVES == {"swordsdance", "dragondance", "nastyplot", "quiverdance", "calmmind", "bulkup",
                "curse", "irondefense", "shellsmash", "geomancy", "tidyup", "coil"}

PRIORITY_MOVES == {"iceshard", "suckerpunch", "shadowsneak", "machpunch", "extremespeed"}

HAZARD_CONTROL_MOVES == {"rapidspin", "defog", "mortalspin", "ceaselessedge", "tidyup"}

RECOVERY_MOVES == {"recover", "roost", "strengthsap", "morningsun"}

\* all_move_json.get(name, {}).get("type", "normal")
WinconMoveType(move_name) ==
    CASE move_name = "stoneedge"   -> "rock"
      [] move_name = "thunderbolt" -> "electric"
      [] move_name = "surf"        -> "water"
      [] OTHER                     -> "normal"

SeqToSet(seq) == {seq[k] : k \in 1..Len(seq)}

\* the user's units: a name, hit points and the moves held
WinconOwnUnits ==
    {u \in [name : {"u1"},
            hp : {30, 100},
            max_hp : {100},
            moves : {<<"swordsdance", "stoneedge", "thunderbolt">>,
                     <<"swordsdance", "thunderbolt">>,
                     <<"swordsdance", "stoneedge">>,
                     <<"stoneedge", "thunderbolt">>,
                     <<"rapidspin", "stoneedge">>,
                     <<"recover", "thunderbolt">>}] :
        u.hp = 30 => u.moves \in {<<"swordsdance", "stoneedge">>, <<"recover", "thunderbolt">>}}

\* the opposing units: p1 varies, p2 is a live Water type without priority
WinconOpponents ==
    {<<p1, [name |-> "p2", hp |-> 50, types |-> <<"water">>, moves |-> <<"surf">>,
            attack_boost |-> 0]>> :
        p1 \in {p \in [name : {"p1"}, hp : {0, 50},
                       types : {<<"steel">>, <<"ground">>, <<"water">>},
                       moves : {<<"surf">>, <<"suckerpunch">>}, attack_boost : {0, 2}] :
                    p.attack_boost = 2 => p.moves = <<"surf">>}}

\* our_team and opponents as analyze_battle builds them: active unit first
WinconBattles == [our_team : {<<u>> : u \in WinconOwnUnits}, opponents : WinconOpponents]

\* the threat scores of the Usage Scout, in percent, in dict order; <<>> is
\* None or an empty dict
WinconThreatScores ==
    {<<>>,
     <<[name |-> "p1", score |-> 50]>>,
     <<[name |-> "p1", score |-> 40]>>,
     <<[name |-> "p2", score |-> 50], [name |-> "p1", score |-> 30]>>}

_classify_role(pokemon) ==
    LET move_names == SeqToSet(pokemon.moves) IN
    IF SETUP_MOVES \cap move_names # {} THEN "sweeper"
    ELSE IF HAZARD_CONTROL_MOVES \cap move_names # {} THEN "utility"
    ELSE IF pokemon.hp * 2 > pokemon.max_hp /\ RECOVERY_MOVES \cap move_names # {} THEN "wall"
    ELSE "pivot"

\* the inner loop of _evaluate_sweeper_blockers: some move of the sweeper has
\* effectiveness below 1 against the opposing unit
ResistsSomeMove(sweeper, opp) ==
    \E k \in 1..Len(sweeper.moves) :
        RLt(type_effectiveness_modifier(WinconMoveType(sweeper.moves[k]), opp.types), RInt(1))

\* the variant that looks for a move the opposing unit does not resist
ResistsAllMoves(sweeper, opp) ==
    \A k \in 1..Len(sweeper.moves) :
        RLt(type_effectiveness_modifier(WinconMoveType(sweeper.moves[k]), opp.types), RInt(1))

RECURSIVE _evaluate_sweeper_blockers(_, _)
_evaluate_sweeper_blockers(sweeper, opponents) ==
    IF opponents = <<>> THEN <<>>
    ELSE LET opp == Head(opponents) IN
         (IF opp.hp > 0 /\ ResistsSomeMove(sweeper, opp) THEN <<opp.name>> ELSE <<>>)
            \o _evaluate_sweeper_blockers(sweeper, Tail(opponents))

WinCondition(pokemon, opponents) ==
    [name |-> pokemon.name,
     hp_ratio |-> IF pokemon.max_hp # 0 THEN Rat(pokemon.hp, pokemon.max_hp) ELSE RInt(0),
     role |-> _classify_role(pokemon),
     blockers |-> _evaluate_sweeper_blockers(pokemon, opponents)]

\* the first loop of analyze_battle, over our_team
RECURSIVE ClassifyTeam(_, _, _)
ClassifyTeam(our_team, opponents, acc) ==
    IF our_team = <<>> THEN acc
    ELSE LET wincon == WinCondition(Head(our_team), opponents)
             role == wincon.role
         IN ClassifyTeam(Tail(our_team), opponents,
              [primary |-> IF role = "sweeper" /\ RLt(Rat(4, 10), wincon.hp_ratio)
                           THEN Append(acc.primary, wincon) ELSE acc.primary,
               backup |-> IF role \in {"wall", "utility"} /\ RLt(Rat(1, 4), wincon.hp_ratio)
                          THEN Append(acc.backup, wincon) ELSE acc.backup,
               do_not_sack |-> IF role \in {"wall", "utility"}
                               THEN Append(acc.do_not_sack, wincon.name) ELSE acc.do_not_sack])

\* the second loop of analyze_battle, over the opponents
RECURSIVE CriticalTargets(_, _)
CriticalTargets(opponents, targets) ==
    IF opponents = <<>> THEN targets
    ELSE LET opp == Head(opponents)
             have_priority == \E k \in 1..Len(opp.moves) : opp.moves[k] \in PRIORITY_MOVES
         IN CriticalTargets(Tail(opponents),
              IF opp.hp > 0 /\ ~SeqHas(targets, opp.name)
                 /\ (have_priority \/ opp.attack_boost >= 2)
              THEN Append(targets, opp.name) ELSE targets)

\* the lists are emptied first; the predictions are not consulted
analyze_battle(battle) ==
    LET team == ClassifyTeam(battle.our_team, battle.opponents,
                             [primary |-> <<>>, backup |-> <<>>, do_not_sack |-> <<>>])
    IN  [primary |-> team.primary,
         backup |-> team.backup,
         preserve |-> team.do_not_sack,
         targets |-> CriticalTargets(battle.opponents, <<>>),
         opponent_threats |-> wct_predicted_threats]

RECURSIVE IngestThreats(_, _)
IngestThreats(threat_scores, targets) ==
    IF threat_scores = <<>> THEN targets
    ELSE LET t == Head(threat_scores) IN
         IngestThreats(Tail(threat_scores),
            IF t.score > 40 /\ ~SeqHas(targets, t.name) THEN Append(targets, t.name) ELSE targets)

\* WinConditionTracker.evaluate
WinconEvaluate ==
    /\ wct_call.n < MaxWinconCalls
    /\ \E battle \in WinconBattles :
         \E report \in {analyze_battle(battle)} :
            /\ wct_call' = [n |-> wct_call.n + 1, op |-> "evaluate", battle |-> battle]
            /\ wct_primary' = report.primary
            /\ wct_backup' = report.backup
            /\ wc_do_not_sack' = report.preserve
            /\ wct_critical_targets' = report.targets
            /\ wct_report' = report
    /\ UNCHANGED <<wct_predicted_threats, wct_threat_log>>

\* WinConditionTracker.ingest_predictions(None, threat_scores, None)
WinconIngest ==
    /\ wct_call.n < MaxWinconCalls
    /\ \E threat_scores \in WinconThreatScores :
         /\ wct_call' = [n |-> wct_call.n + 1, op |-> "ingest"]
         /\ IF threat_scores = <<>>
            THEN UNCHANGED <<wct_predicted_threats, wct_critical_targets, wct_threat_log>>
            ELSE /\ wct_predicted_threats' = threat_scores
                 /\ wct_critical_targets' = IngestThreats(threat_scores, wct_critical_targets)
                 /\ wct_threat_log' = wct_threat_log \cup
                        {threat_scores[k].name : k \in {j \in 1..Len(threat_scores) :
                                                           threat_scores[j].score > 40}}
    /\ UNCHANGED <<wct_primary, wct_backup, wc_do_not_sack, wct_report>>

\* WinConditionTracker.reset at match start
WinconReset ==
    /\ wct_call.n > 0
    /\ wct_call.n < MaxWinconCalls
    /\ wct_call.op # "reset"
    /\ wct_call' = [n |-> wct_call.n + 1, op |-> "reset"]
    /\ wct_primary' = <<>>
    /\ wct_backup' = <<>>
    /\ wc_do_not_sack' = <<>>
    /\ wct_critical_targets' = <<>>
    /\ wct_predicted_threats' = <<>>
    /\ wct_threat_log' = {}
    /\ UNCHANGED wct_report

(***************************************************************************)
(* Specifications, one per component; the other components stay as built.  *)
(***************************************************************************)
non_om_vars == <<tm_vars, crit_vars, ra_vars, sel_vars, heur_vars, orch_vars>>
non_tm_vars == <<om_vars, crit_vars, ra_vars, sel_vars, heur_vars, orch_vars>>
non_crit_vars == <<om_vars, tm_vars, ra_vars, sel_vars, heur_vars, orch_vars>>
non_ra_vars == <<om_vars, tm_vars, crit_vars, sel_vars, heur_vars, orch_vars>>
non_heur_vars == <<om_vars, tm_vars, crit_vars, ra_vars, sel_vars, orch_vars>>

OmObserveStep == OmObserve /\ UNCHANGED non_om_vars
OmResetStep == OmReset /\ UNCHANGED non_om_vars
OmNext == OmObserveStep \/ OmResetStep

OpponentInit == OmInit /\ TmInit /\ CritIdle /\ RaIdle /\ SelIdle /\ HeurIdle /\ OrchIdle

SpecOpponent == OpponentInit /\ [][OmNext]_vars

TmAllocateStep == TmAllocate /\ UNCHANGED non_tm_vars
TmSkipStep == TmSkip /\ UNCHANGED non_tm_vars
TmUpdateStep == TmUpdate /\ UNCHANGED non_tm_vars
TmResetStep == TmReset /\ UNCHANGED non_tm_vars
TmNext == TmAllocateStep \/ TmSkipStep \/ TmUpdateStep \/ TmResetStep

TimeInit == OmInit /\ TmInit /\ CritIdle /\ RaIdle /\ SelIdle /\ HeurIdle /\ OrchIdle

SpecTime == TimeInit /\ [][TmNext]_vars

CritCallStep == CritCall /\ UNCHANGED non_crit_vars
CritNext == CritCallStep

CriticalityInit == OmInit /\ TmInit /\ CritInit /\ RaIdle /\ SelIdle /\ HeurIdle /\ OrchIdle

SpecCriticality == CriticalityInit /\ [][CritNext]_vars

RaEvaluateStep == RaEvaluate /\ UNCHANGED non_ra_vars
RaResetStep == RaReset /\ UNCHANGED non_ra_vars
RaNextTurnStep == RaNextTurn /\ UNCHANGED non_ra_vars
RaNext == RaEvaluateStep \/ RaResetStep \/ RaNextTurnStep

RiskInit == OmInit /\ TmInit /\ CritIdle /\ RaInit /\ SelIdle /\ HeurIdle /\ OrchIdle

SpecRisk == RiskInit /\ [][RaNext]_vars

SelNext == SelPrelude \/ SelSelect

SelectInit ==
    OmInit /\ TmInit /\ CritIdle /\ RaFresh /\ rb \in SelBattles /\ SelInit /\ HeurIdle /\ OrchIdle

SpecSelect == SelectInit /\ [][SelNext]_vars

PolChooseStep == PolChoose /\ UNCHANGED <<non_heur_vars, ohko_vars, tp_vars, hz_vars, pe_vars, xp_vars>>
PolNext == PolChooseStep

PolicyInit ==
    /\ OmInit /\ TmInit /\ CritIdle /\ RaIdle /\ SelIdle
    /\ PolInit /\ OhkoIdle /\ TpIdle /\ HzIdle /\ PeIdle /\ XpIdle /\ OrchIdle

SpecPolicy == PolicyInit /\ [][PolNext]_vars

OhkoCheckStep == OhkoCheck /\ UNCHANGED <<non_heur_vars, pol_vars, tp_vars, hz_vars, pe_vars, xp_vars>>
OhkoNext == OhkoCheckStep

OhkoRiskInit ==
    /\ OmInit /\ TmInit /\ CritIdle /\ RaIdle /\ SelIdle
    /\ PolIdle /\ OhkoInit /\ TpIdle /\ HzIdle /\ PeIdle /\ XpIdle /\ OrchIdle

SpecOhko == OhkoRiskInit /\ [][OhkoNext]_vars

TpPreviewStep == TpPreview /\ UNCHANGED <<non_heur_vars, pol_vars, ohko_vars, hz_vars, pe_vars, xp_vars>>
TpNewBattleStep == TpNewBattle /\ UNCHANGED <<non_heur_vars, pol_vars, ohko_vars, hz_vars, pe_vars, xp_vars>>
TpNext == TpPreviewStep \/ TpNewBattleStep

TeamPreviewInit ==
    /\ OmInit /\ TmInit /\ CritIdle /\ RaIdle /\ SelIdle
    /\ PolIdle /\ OhkoIdle /\ TpInit /\ HzIdle /\ PeIdle /\ XpIdle /\ OrchIdle

SpecTeamPreview == TeamPreviewInit /\ [][TpNext]_vars

HzScoreSwitchStep == HzScoreSwitch /\ UNCHANGED <<non_heur_vars, pol_vars, ohko_vars, tp_vars, pe_vars, xp_vars>>
HzNext == HzScoreSwitchStep

HazardInit ==
    /\ OmInit /\ TmInit /\ CritIdle /\ RaIdle /\ SelIdle
    /\ PolIdle /\ OhkoIdle /\ TpIdle /\ HzInit /\ PeIdle /\ XpIdle /\ OrchIdle

SpecHazard == HazardInit /\ [][HzNext]_vars

TeraNext == RaEvaluateStep

TeraRestoreInit == OmInit /\ TmInit /\ CritIdle /\ TeraInit /\ SelIdle /\ HeurIdle /\ OrchIdle

SpecTera == TeraRestoreInit /\ [][TeraNext]_vars

PeEvaluateStep == PeEvaluate /\ UNCHANGED <<non_heur_vars, pol_vars, ohko_vars, tp_vars, hz_vars, xp_vars>>
PeNext == PeEvaluateStep

PositionInit ==
    /\ OmInit /\ TmInit /\ CritIdle /\ RaIdle /\ SelIdle
    /\ PolIdle /\ OhkoIdle /\ TpIdle /\ HzIdle /\ PeInit /\ XpIdle /\ OrchIdle

SpecPosition == PositionInit /\ [][PeNext]_vars

XpRecordTurnStep == XpRecordTurn /\ UNCHANGED <<non_heur_vars, pol_vars, ohko_vars, tp_vars, hz_vars, pe_vars>>
XpReturnStep == XpReturn /\ UNCHANGED <<non_heur_vars, pol_vars, ohko_vars, tp_vars, hz_vars, pe_vars>>
XpNextTurnStep == XpNextTurn /\ UNCHANGED <<non_heur_vars, pol_vars, ohko_vars, tp_vars, hz_vars, pe_vars>>
XpNext == XpRecordTurnStep \/ XpReturnStep \/ XpNextTurnStep

ExperienceInit ==
    /\ OmInit /\ TmInit /\ CritIdle /\ RaIdle /\ SelIdle
    /\ PolIdle /\ OhkoIdle /\ TpIdle /\ HzIdle /\ PeIdle /\ XpInit /\ OrchIdle

SpecExperience == ExperienceInit /\ [][XpNext]_vars

non_turn_vars == <<om_vars, crit_vars, ra_vars, sel_vars, heur_vars, disp_vars, ctx_vars, sk_vars, wct_vars>>

FbmUpdateMetricsStep == FbmUpdateMetrics /\ UNCHANGED non_turn_vars
FbmSearchTimeStep == FbmSearchTime /\ UNCHANGED non_turn_vars
FbmSkipCheckStep == FbmSkipCheck /\ UNCHANGED non_turn_vars
FbmNextCallStep == FbmNextCall /\ UNCHANGED non_turn_vars
FbmNext == FbmUpdateMetricsStep \/ FbmSearchTimeStep \/ FbmSkipCheckStep \/ FbmNextCallStep

TurnLoopInit == OmInit /\ TmInit /\ CritIdle /\ RaIdle /\ SelIdle /\ HeurIdle /\ TurnInit /\ DispIdle /\ CtxIdle /\ SackIdle /\ WctIdle

SpecTurn == TurnLoopInit /\ [][FbmNext]_vars

non_disp_vars == <<om_vars, tm_vars, crit_vars, ra_vars, sel_vars, heur_vars, turn_vars, ctx_vars, sk_vars, wct_vars>>

DispSubmitStep == DispSubmit /\ UNCHANGED non_disp_vars
WorkerFinishStep == WorkerFinish /\ UNCHANGED non_disp_vars
DispCollectStep == DispCollect /\ UNCHANGED non_disp_vars
DispSelectStep == DispSelect /\ UNCHANGED non_disp_vars
DispNext == DispSubmitStep \/ WorkerFinishStep \/ DispCollectStep \/ DispSelectStep

DispatchInit == OmInit /\ TmInit /\ CritIdle /\ RaIdle /\ SelIdle /\ HeurIdle /\ TurnIdle /\ DispInit /\ CtxIdle /\ SackIdle /\ WctIdle

SpecDispatch == DispatchInit /\ [][DispNext]_vars

non_ctx_vars == <<om_vars, tm_vars, crit_vars, ra_vars, sel_vars, heur_vars, turn_vars, disp_vars, sk_vars, wct_vars>>

CtxEnterStep == CtxEnter /\ UNCHANGED non_ctx_vars
CtxUpdateStep == CtxUpdate /\ UNCHANGED non_ctx_vars
CtxNextCallStep == CtxNextCall /\ UNCHANGED non_ctx_vars
CtxNext == CtxEnterStep \/ CtxUpdateStep \/ CtxNextCallStep

ContextInit == OmInit /\ TmInit /\ CritIdle /\ RaIdle /\ SelIdle /\ HeurIdle /\ TurnIdle /\ DispIdle /\ CtxInit /\ SackIdle /\ WctIdle

SpecContext == ContextInit /\ [][CtxNext]_vars

non_sk_vars == <<tm_vars, crit_vars, ra_vars, sel_vars, heur_vars, turn_vars, disp_vars, ctx_vars, wct_vars>>

SackObserveStep == SackObserve /\ UNCHANGED non_sk_vars
SackNext == SackObserveStep

SackTrackingInit == OmInit /\ TmInit /\ CritIdle /\ RaIdle /\ SelIdle /\ HeurIdle /\ TurnIdle /\ DispIdle /\ CtxIdle /\ SackInit /\ WctIdle

SpecSack == SackTrackingInit /\ [][SackNext]_vars

non_wct_vars == <<om_vars, tm_vars, crit_vars, ra_vars, sc_last_position_metrics, sel_battle, sel_in, sel_out, sel_pc, heur_vars, turn_vars, disp_vars, ctx_vars, sk_vars>>

WinconEvaluateStep == WinconEvaluate /\ UNCHANGED non_wct_vars
WinconIngestStep == WinconIngest /\ UNCHANGED non_wct_vars
WinconResetStep == WinconReset /\ UNCHANGED non_wct_vars
WinconNext == WinconEvaluateStep \/ WinconIngestStep \/ WinconResetStep

WinconInit == OmInit /\ TmInit /\ CritIdle /\ RaIdle /\ SelIdle /\ HeurIdle /\ OrchIdle

SpecWincon == WinconInit /\ [][WinconNext]_vars

(***************************************************************************)
(* Claims                                                                  *)
(***************************************************************************)
\* the counters C1 names
OmCounters == <<om_stats, om_sack_turns>>

\* this step is an observe_turn call that follows an observe_turn call made
\* on a battle with the same turn number
SecondObserveOfTurn ==
    /\ om_call.n > 0
    /\ om_call'.n = om_call.n + 1
    /\ om_call.turn # NoTurn
    /\ om_call'.turn = om_call.turn

\* C1: of two consecutive observe_turn calls whose battles carry the same turn
\* number, the second changes no counter of the model (actions, sacks, sack
\* turns, double switches).
C1_SecondObserveChangesNothing ==
    [][SecondObserveOfTurn => OmCounters' = OmCounters]_vars

\* this step is an allocate_search_time or should_skip_deep_search call
TmClockedCall ==
    /\ tm_call'.n = tm_call.n + 1
    /\ tm_call'.op \in {"allocate", "skip"}

\* C2 as stated: within a match no allocate_search_time or
\* should_skip_deep_search call leaves the bank above its value before the call.
C2_BankNeverIncreases ==
    [][TmClockedCall => RLe(tm_bank_ms', tm_bank_ms)]_vars

\* C2 amended: a call that does not resynchronize (clock unknown, or
\* should_skip_deep_search at team preview) never raises the bank; a call
\* that resynchronizes leaves the bank no higher than the resynchronized
\* value max((time_remaining - 6) * 1000, 225).
C2_BankBoundedBySync ==
    [][TmClockedCall =>
         RLe(tm_bank_ms',
             IF tm_call'.time_remaining = NoClock \/ tm_call'.team_preview
             THEN tm_bank_ms
             ELSE SyncedBank(tm_call'.time_remaining))]_vars

\* an allocation with the clock unknown has taken the bank below its start value
C2_Witness ==
    /\ tm_call.op = "allocate"
    /\ tm_call.time_remaining = NoClock
    /\ RLt(tm_bank_ms, InitialBank)
    /\ Len(tm_allocation_history) >= 2

\* C3: in every reachable TimeManager state bank_ms >= 0.
C3_BankNonNegative == RLe(RInt(0), tm_bank_ms)

\* an allocation made with less time on the clock than the safety buffer
C3_Witness ==
    /\ tm_call.op = "allocate"
    /\ tm_call.time_remaining # NoClock
    /\ tm_call.time_remaining < safety_buffer_s
    /\ tm_bank_ms = RInt(min_allocation_ms * 2)

\* C4: calculate_position_criticality returns a value in [1.0, 3.0], on the
\* normal path and on the path taken when reading the metrics raises.
C4_CriticalityInRange ==
    crit_pc = "done" => (RLe(RInt(1), crit_out) /\ RLe(crit_out, RInt(3)))

\* the inputs that are i with exactly one danger signal made worse, the
\* others held fixed
OneSignalWorse(i) ==
    {j \in
        {[i EXCEPT !.user_alive = v] : v \in {x \in UserAliveValues : x < i.user_alive}}
        \cup {[i EXCEPT !.opp_alive = v] : v \in {x \in OppAliveValues : x < i.opp_alive}}
        \cup {[i EXCEPT !.active_hp = v] :
                 v \in {x \in ActiveHpValues : i.has_active /\ x < i.active_hp}}
        \cup {[i EXCEPT !.opp_sweep_potential = v] :
                 v \in {x \in SweepValues : RLt(i.opp_sweep_potential, x)}}
        \cup {[i EXCEPT !.has_win_condition = v] : v \in {x \in {FALSE} : i.has_win_condition}}
        \cup {[i EXCEPT !.momentum = v] : v \in {x \in MomentumValues : RLt(x, i.momentum)}} :
        ConsistentCritInput(j)}

\* C5: making one danger signal worse, the others held fixed, never lowers
\* the multiplier calculate_position_criticality returns.
C5_CriticalityMonotone ==
    crit_pc = "done" =>
        \A j \in OneSignalWorse(crit_in) :
            RLe(crit_out, calculate_position_criticality(j))

\* a call below the clamp whose multiplier a worse signal strictly raises
C5_Witness ==
    /\ crit_pc = "done"
    /\ ~crit_in.team_preview
    /\ crit_in.raises = "nowhere"
    /\ \E j \in OneSignalWorse(crit_in) :
          /\ j.user_alive < crit_in.user_alive
          /\ RLt(crit_out, calculate_position_criticality(j))

\* this step is an evaluate_moves call that repeats the previous call: same
\* turn, same candidate set
RepeatedEvaluate ==
    /\ ra_call'.n = ra_call.n + 1
    /\ ra_call'.repeats

C7_NoStaleProfile ==
    (ra_call.n > 0 /\ ra_call.turn = rb.turn) =>
        \A m \in RiskMoves :
            Cached(ra_turn_cache, m) => ra_computed_turn[m] = rb.turn

\* C8: the policy summary select_move_from_mcts_results returns has weights
\* summing to 1.0, with or without a strategic context, after trimming and
\* after adjustments that clamp weights to 0.
C8_PolicySummarySumsToOne ==
    sel_pc = "done" => RSumSeq(Weights(sel_out.policy_summary)) = RInt(1)

\* the aggregated weights of the call, heaviest first
AggregatedInput == SortByWeight(Aggregate(sel_in.mcts_results))

\* C9: when the top move holds at least 90% of the total aggregated weight,
\* that move is returned with summary {move: 1.0} and the strategic context is
\* neither read nor written.
C9_DominantMoveShortCircuits ==
    (/\ sel_pc = "done"
     /\ RLe(RMul(Rat(9, 10), RSumSeq(Weights(AggregatedInput))), AggregatedInput[1][2]))
    => /\ sel_out.choice = AggregatedInput[1][1]
       /\ sel_out.policy_summary = <<<<AggregatedInput[1][1], RInt(1)>>>>
       /\ ~sel_out.context_used

\* every determinization has all of its visits on option i
Unanimous(i) ==
    \A k \in 1..Len(sel_in.mcts_results) :
        sel_in.mcts_results[k].visits[i] = SumNat(sel_in.mcts_results[k].visits)

\* C10: when every determinization puts 100% of its visits on the same move
\* A, the call returns A and the policy summary is exactly {A: 1.0}.
C10_UnanimousResultIsCertain ==
    \A i \in 1..Len(SelMoves) :
        (sel_pc = "done" /\ Unanimous(i))
        => /\ sel_out.choice = SelMoves[i]
           /\ sel_out.policy_summary = <<<<SelMoves[i], RInt(1)>>>>

\* the active unit has moves and none of them has a use left
AllMovesSpent(b) ==
    /\ b.user_active
    /\ b.moves # <<>>
    /\ \A k \in 1..Len(b.moves) : b.moves[k].current_pp <= 0

\* C11: when every move of the active unit has zero remaining uses and no
\* switch is recommended, the heuristic selector returns the no-op token
\* "struggle", never a move with zero remaining uses.
C11_SpentMovesGiveNoOp ==
    (pol_pc = "done" /\ AllMovesSpent(pol_in) /\ pol_in.switch_rec # "switch")
        => pol_out.choice = "struggle"

\* some non-disabled opposing move has a computed maximum switch-in damage of
\* at least the current HP of the user's active unit
LethalMoveKnown(b) ==
    \E k \in 1..Len(b.opp_moves) :
        /\ ~b.opp_moves[k].disabled
        /\ ~b.opp_moves[k].lookup.raises
        /\ Len(b.opp_moves[k].lookup.rolls) >= 2
        /\ b.opp_moves[k].lookup.rolls[2] >= b.user_hp

\* the budget is multiplied by 1.5 (to the integer below) exactly when a
\* threat is flagged
BudgetFollowsFlag ==
    ohko_out.search_time_per_battle =
        IF ohko_out.has_ohko_risk = "True"
        THEN (3 * ohko_in.search_time_per_battle) \div 2
        ELSE ohko_in.search_time_per_battle

\* C12: check_ohko_risk flags a threat if and only if some non-disabled
\* opposing move has a computed maximum switch-in damage >= the current HP of
\* the user's active unit, and the budget is multiplied by 1.5 exactly then.
C12_OhkoFlagIffLethalMove ==
    ohko_pc = "done" =>
        /\ (ohko_out.has_ohko_risk = "True") <=> LethalMoveKnown(ohko_in)
        /\ BudgetFollowsFlag

\* C12 amended: outside team preview, with an opposing active unit and the
\* user's active unit above 0 HP, a threat is flagged if and only if such a
\* move exists; in every other state no threat is flagged; the budget is
\* multiplied by 1.5 (to the integer below) exactly when a threat is flagged.
C12_OhkoFlagIffLethalMoveOnLiveTurn ==
    ohko_pc = "done" =>
        /\ (ohko_out.has_ohko_risk = "True") <=>
              /\ ~ohko_in.team_preview
              /\ ohko_in.opp_active
              /\ ohko_in.user_hp > 0
              /\ LethalMoveKnown(ohko_in)
        /\ BudgetFollowsFlag

\* a flagged threat next to a disabled lethal move and a lookup that raised,
\* with the budget raised from 75 to 112
C12_Witness ==
    /\ ohko_pc = "done"
    /\ ohko_out.has_ohko_risk = "True"
    /\ ohko_in.search_time_per_battle = 75
    /\ ohko_out.search_time_per_battle = 112
    /\ Len(ohko_in.opp_moves) = 2
    /\ ohko_in.opp_moves[1].lookup.raises
    /\ ~ohko_in.opp_moves[2].disabled

\* own unit x has a super-effective attacking move against every opposing
\* unit and holds a setup move; own unit y has neither
XHasAdvantageYNone(b) ==
    \E i, j \in 1..Len(b.our_team) :
        LET x == b.our_team[i]
            y == b.our_team[j]
        IN  /\ \A k \in 1..Len(b.opp_team) :
                   /\ \E m \in 1..Len(x.moves) :
                          RLe(RInt(2), calculate_move_effectiveness(x.moves[m],
                                                                    b.opp_team[k].types))
                   /\ \A m \in 1..Len(y.moves) :
                          RLt(calculate_move_effectiveness(y.moves[m],
                                                           b.opp_team[k].types), RInt(2))
            /\ \E m \in 1..Len(x.moves) : is_setup_move(x.moves[m])
            /\ \A m \in 1..Len(y.moves) : ~is_setup_move(y.moves[m])
            /\ x.name = "x" /\ y.name = "y"

\* C13: at team preview, the unit with a type advantage against every
\* opposing unit and a setup move is selected as lead over the unit with
\* neither, for all speeds, defensive typings, lead probabilities and threat
\* scores.
C13_AdvantagedUnitLeads ==
    (tp_pc = "done" /\ XHasAdvantageYNone(tp_in.battle)) => tp_out.lead_name = "x"

\* C18: the lead weights used for team-preview lead selection sum to 1 over
\* the opposing roster, and are uniform (1/n each) when scouting raises.
C18_LeadWeightsSumToOne ==
    tp_pc = "done" =>
        /\ RSumSeq(tp_out.weights) = RInt(1)
        /\ (tp_in.battle.scout_raises /\ ~tp_out.report_cached) =>
               \A k \in 1..Len(tp_out.weights) :
                   tp_out.weights[k] = Rat(1, Len(tp_in.battle.opp_team))

\* the switch target holds heavy-duty boots that were not knocked off
HoldsBoots(target) == target.item = "heavydutyboots" /\ ~target.knocked_off

\* C14: a switch candidate whose target holds heavy-duty boots (not knocked
\* off) gets hazard cost 0 and expected value 0, for every hazard layout and
\* target typing.
C14_BootsGiveZeroHazardCost ==
    (hz_pc = "done" /\ HoldsBoots(hz_in.reserve)) =>
        /\ hz_out.hazard_cost = RInt(0)
        /\ hz_out.expected_value = RInt(0)

\* a booted target scored on a side with every hazard, which would cost it HP
\* without the boots
C14_Witness ==
    /\ hz_pc = "done"
    /\ HoldsBoots(hz_in.reserve)
    /\ hz_in.side_conditions = [stealthrock |-> 1, spikes |-> 3, toxicspikes |-> 2]
    /\ hz_in.reserve.types = <<"normal">>
    /\ RLt(RInt(0), HazardCostIgnoringBoots(hz_in.side_conditions, hz_in.reserve))
    /\ hz_out.description = "switch"

\* this step is an evaluate_moves call, returning or raising
EvaluateCall == ra_call'.n = ra_call.n + 1

\* C15: after evaluate_moves returns or raises, the type set and the
\* terastallized flag of the user's active unit equal their values before the
\* call, for every candidate set, "-tera" candidates included, and when the
\* damage lookup inside the simulated tera block raises.
C15_TeraSimulationRestored ==
    [][EvaluateCall =>
         /\ rb'.user_types = rb.user_types
         /\ rb'.user_terastallized = rb.user_terastallized]_vars

\* a call whose first candidate was a "-tera" move of a unit that can still
\* terastallize, and whose damage lookup raised inside the tera block
C15_Witness ==
    /\ ra_call.n > 0
    /\ ra_call.raised
    /\ ra_call.cands.given
    /\ ra_call.cands.moves # <<>>
    /\ _split_move_metadata(ra_call.cands.moves[1]).tera
    /\ TeraApplies(rb, TRUE)
    /\ ra_damage_queries > 0

InUnit(x) == RLe(RInt(0), x) /\ RLe(x, RInt(1))

\* C16: after every call of get_position_metrics the momentum, the tempo
\* score and the positional-safety score each lie in [0, 1], whatever the
\* battle: a side without an active unit, extreme HP differences, +6 boosts.
C16_ScoresInUnitInterval ==
    pe_pc = "done" =>
        /\ InUnit(pe_out.momentum)
        /\ InUnit(pe_out.tempo.tempo_score)
        /\ InUnit(pe_out.positional_safety.safety_score)

\* a finished call on a battle whose opponent has no active unit, whose user
\* is at +6 attack, and whose momentum before the clamp lies above 1
C16_Witness ==
    /\ pe_pc = "done"
    /\ ~pe_in.opponent.active.present
    /\ pe_in.user.active.present /\ pe_in.user.active.boosts["attack"] = 6
    /\ RLt(RInt(1), pe_out.raw_momentum)

\* C17: record_turn never raises, whatever statement of its body fails, and
\* find_best_move returns the move it had selected, on the time-pressure
\* path and on the search path alike, also when no line could be written.
C17_RecordTurnNeverRaises ==
    /\ xp_pc \in {"recorded", "done"} => ~xp_out.raised
    /\ xp_pc = "done" => xp_out.ret = xp_in.choice

\* a finished search-path call whose record failed at the write, after an
\* earlier call had appended its line
C17_Witness ==
    /\ xp_pc = "done"
    /\ xp_in.path = "search" /\ xp_in.failure = "write"
    /\ xp_out.ret = xp_in.choice
    /\ Len(xp_log) = xp_in.n - 1 /\ xp_in.n > 1

\* this step is an allocate_search_time call
TmAllocateCall == tm_call'.n = tm_call.n + 1 /\ tm_call'.op = "allocate"

\* the amount C19 names: max(min_allocation, min(desired, bank / estimated_turns))
\* with desired = min(max_allocation, base * max(1, criticality + leverage_bonus))
\* and estimated_turns = max(3, own alive + opponent alive)
StatedAllocation(bank, high_leverage, criticality, user_alive, opp_alive) ==
    LET leverage_bonus == IF high_leverage THEN Rat(2, 5) ELSE RInt(0)
        desired == RMin(RInt(max_allocation_ms),
                        RMul(RInt(search_time_ms),
                             RMax(RInt(1), RAdd(criticality, leverage_bonus))))
        estimated_turns == IF user_alive + opp_alive >= 3 THEN user_alive + opp_alive ELSE 3
    IN  RMax(RInt(min_allocation_ms), RMin(desired, RDiv(bank, RInt(estimated_turns))))

\* C19 as stated: allocate_search_time returns the stated amount, computed on
\* the resynchronized bank, and leaves the bank at the resynchronized value
\* minus the returned amount.
C19_ReturnsStatedAmount ==
    [][TmAllocateCall =>
             LET bank == _sync_clock(tm_bank_ms, tm_call'.time_remaining)
                 stated == StatedAllocation(bank, tm_high_leverage_turn, tm_call'.args[3],
                                            tm_call'.args[1], tm_call'.args[2])
             IN  /\ RInt(tm_call'.ret) = stated
                 /\ tm_bank_ms' = RSub(bank, RInt(tm_call'.ret))]_vars

\* C19 amended: allocate_search_time returns the stated amount truncated to
\* an integer, and leaves the bank at the larger of 0 and the resynchronized
\* value minus the untruncated amount.
C19_ReturnsTruncatedAmount ==
    [][TmAllocateCall =>
             LET bank == _sync_clock(tm_bank_ms, tm_call'.time_remaining)
                 stated == StatedAllocation(bank, tm_high_leverage_turn, tm_call'.args[3],
                                            tm_call'.args[1], tm_call'.args[2])
                 left == RSub(bank, stated)
             IN  /\ tm_call'.ret = stated[1] \div stated[2]
                 /\ tm_bank_ms' = IF RLe(RInt(0), left) THEN left ELSE RInt(0)]_vars

\* an allocation whose amount was not a whole number of milliseconds
C19_Witness ==
    /\ tm_call.op = "allocate"
    /\ tm_last_time_allocation[2] # 1
    /\ RLt(RInt(tm_call.ret), tm_last_time_allocation)

\* this step is a should_skip_deep_search call
TmSkipCall == tm_call'.n = tm_call.n + 1 /\ tm_call'.op = "skip"

\* the decision C20 names, on a bank, a leverage flag and the clock of the call
StatedSkip(bank, high_leverage, time_remaining, team_preview) ==
    IF team_preview \/ time_remaining = NoClock \/ time_remaining > 30 THEN FALSE
    ELSE ~high_leverage /\ (time_remaining <= 8 \/ RLt(bank, RInt(2 * min_allocation_ms)))

C21_BankWrittenByAllocationOnly ==
    turn_pc = "checked" => turn_writes = SyncWrites(turn_clock) \o <<"allocate_search_time">>

\* the results of the tasks, each paired with the sample chance of the
\* determinization it was submitted for
SubmittedResults ==
    [k \in 1..Len(disp_futures) |->
        [visits |-> disp_futures[k].visits, sample_chance |-> disp_battles[k].sample_chance]]

\* C22: one task is submitted per determinization, each with the same budget;
\* selection happens only when every task has completed (never, if a worker
\* stalls); and the aggregated policy is the aggregate of each task's result
\* with its own determinization's sample chance, whatever the completion order.
C22_FanOutFanIn ==
    /\ Len(disp_futures) <= Len(disp_battles)
    /\ \A k \in 1..Len(disp_futures) :
           disp_futures[k].search_time_ms = disp_budget /\ disp_futures[k].index = k - 1
    /\ disp_pc \in {"collecting", "done"} => Len(disp_futures) = Len(disp_battles)
    /\ disp_pc = "done" =>
           /\ \A k \in 1..Len(disp_futures) : disp_futures[k].state = "done"
           /\ \A k \in 1..Len(disp_battles) : ~disp_battles[k].stalls
           /\ disp_policy = Aggregate(SubmittedResults)

\* selection done after the second task finished before the first, the two
\* having different sample chances and different results
C22_Witness ==
    /\ disp_pc = "done"
    /\ disp_finished = <<2, 1>>
    /\ disp_battles[1].sample_chance # disp_battles[2].sample_chance
    /\ disp_futures[1].visits # disp_futures[2].visits

\* C23: the context a find_best_move call works on holds every update the
\* previous call of the match made, whether the battle object came with a
\* strategic context or find_best_move had to create one.
C23_LaterCallSeesEarlierUpdates ==
    ctx_pc = "entered" => ctx_heap[ctx_local] = ctx_left

\* C24: at the start of every match, the first or one begun by
\* reset_for_new_battle, the per-match state of the context is that of a fresh
\* context: opponent model, risk cache, win-condition lists, time bank, last
\* position metrics, and no cached usage preview report.
C24_ResetLeavesFreshContext ==
    tp_pc = "ready" =>
        /\ sc_preview_report = NoReport
        /\ OmInit /\ TmInit /\ RaFresh /\ SelFresh

\* ---- C25 ----
\* the units' sack events, in the order recorded
RECURSIVE EventsOf(_, _)
EventsOf(u, events) ==
    IF events = <<>> THEN <<>>
    ELSE (IF Head(events).pokemon = u THEN <<Head(events)>> ELSE <<>>)
            \o EventsOf(u, Tail(events))

SackRecordedStep ==
    /\ sk_observed' # NoObservation
    /\ om_call'.n = om_call.n + 1
    /\ om_last_recorded_turn # sk_observed'.turn

\* what the window of unit u is after an observation of battle b, as stated
StatedWindow(u, b) ==
    LET hp == b.opp_hp[u]
        open == om_pending_sacks[u]
    IN IF hp = 0 THEN NoTurn
       ELSE IF hp * 2 > b.opp_max_hp THEN NoTurn
       ELSE IF hp * 4 <= b.opp_max_hp /\ open = NoTurn THEN b.turn
       ELSE open

\* C25: on every recorded observation and for every opposing unit, a window
\* opens at the first turn the unit is seen at 25% or less with hit points
\* left, is discarded above 50%, and a unit newly seen fainted with an open
\* window gets exactly one sack event of duration faint turn minus opening
\* turn
C25_SackWindowPerUnit ==
    [][SackRecordedStep =>
        \A u \in OppUnits :
            /\ om_pending_sacks'[u] = StatedWindow(u, sk_observed')
            /\ (/\ sk_observed'.opp_hp[u] = 0
                /\ u \notin om_fainted_pokemon
                /\ om_pending_sacks[u] # NoTurn)
               => EventsOf(u, om_sack_events') =
                    Append(EventsOf(u, om_sack_events),
                           [pokemon |-> u, turn |-> sk_observed'.turn,
                            duration |-> sk_observed'.turn - om_pending_sacks[u]])]_vars

\* the window part for an active unit not seen fainted before, which the code
\* implements
C25_ActiveUnitWindow ==
    [][SackRecordedStep =>
        LET a == sk_observed'.opp_active IN
        a \notin om_fainted_pokemon => om_pending_sacks'[a] = StatedWindow(a, sk_observed')]_vars

StatedLeverage(b) ==
    IF ~b.metrics_given THEN <<1, 1>>
    ELSE IF b.momentum[1] * 10 < 4 * b.momentum[2] THEN <<3, 2>>
    ELSE IF b.momentum[1] * 10 > 7 * b.momentum[2] THEN <<3, 4>>
    ELSE <<1, 1>>

AttackingMoves == {"stoneedge", "thunderbolt", "surf", "rapidspin", "suckerpunch"}

\* the opposing unit resists every attacking move type of the sweeper
ResistsEveryAttack(sweeper, opp) ==
    \A k \in 1..Len(sweeper.moves) :
        sweeper.moves[k] \in AttackingMoves =>
            RLt(type_effectiveness_modifier(WinconMoveType(sweeper.moves[k]), opp.types), RInt(1))

OwnUnit(battle, name) == CHOOSE u \in SeqToSet(battle.our_team) : u.name = name

\* C27: in the report of evaluate an opposing unit is a blocker of a sweeper
\* exactly when it is alive and resists every attacking move type of the
\* sweeper
C27_BlockersResistEveryAttack ==
    wct_call.op = "evaluate" =>
        \A i \in 1..Len(wct_report.primary) :
            \A j \in 1..Len(wct_call.battle.opponents) :
                LET opp == wct_call.battle.opponents[j]
                    sweeper == OwnUnit(wct_call.battle, wct_report.primary[i].name)
                IN  SeqHas(wct_report.primary[i].blockers, opp.name)
                        <=> (opp.hp > 0 /\ ResistsEveryAttack(sweeper, opp))

\* one direction holds: a live unit that resists every attack is listed when
\* the sweeper has an attacking move, and a fainted unit never is
C27_FullResistersAreBlockers ==
    wct_call.op = "evaluate" =>
        \A i \in 1..Len(wct_report.primary) :
            \A j \in 1..Len(wct_call.battle.opponents) :
                LET opp == wct_call.battle.opponents[j]
                    sweeper == OwnUnit(wct_call.battle, wct_report.primary[i].name)
                IN  /\ (opp.hp > 0 /\ ResistsEveryAttack(sweeper, opp))
                        => SeqHas(wct_report.primary[i].blockers, opp.name)
                    /\ opp.hp = 0 => ~SeqHas(wct_report.primary[i].blockers, opp.name)

\* ---- C28 ----
\* C28: every unit ingested with a threat score above 0.4 since the last
\* reset is among the targets each later evaluate call returns
C28_IngestedThreatsStayTargets ==
    [][wct_call'.op = "evaluate" /\ wct_call'.n = wct_call.n + 1
        => \A u \in wct_threat_log : SeqHas(wct_report'.targets, u)]_vars

\* ---- C29 ----
\* C29: in every OpponentModel state the action counters agree with the turn
\* history, the sack counter with the sack events, the sack turns and the set
\* of fainted units, and the double-switch counters with their history
C29_CountersAgreeWithHistories ==
    /\ om_stats.aggressive_actions + om_stats.passive_actions = Len(om_turn_history)
    /\ om_stats.risky_actions + om_stats.safe_actions = Len(om_turn_history)
    /\ om_stats.sacks = Len(om_sack_events)
    /\ om_stats.sacks = Len(om_sack_turns)
    /\ om_stats.sacks = Cardinality(om_fainted_pokemon)
    /\ \A i, j \in 1..Len(om_sack_events) :
            om_sack_events[i].pokemon = om_sack_events[j].pokemon => i = j
    /\ om_stats.double_switch_successes <= om_stats.double_switch_attempts
    /\ om_stats.double_switch_attempts = om_stats.double_switches
    /\ om_stats.double_switches = Len(om_double_switch_history)

C29_Witness ==
    /\ om_stats.sacks = 2
    /\ Len(om_turn_history) = 2
    /\ om_stats.aggressive_actions = 1
    /\ om_stats.risky_actions = 1
    /\ om_stats.double_switch_attempts = 1
    /\ om_stats.double_switch_successes = 0

\* ---- C30 ----
\* C30: after an allocate_search_time or should_skip_deep_search call made
\* with the clock known (and not at team preview), the bank the call
\* resynchronized to is at least three minimum allocations; the allocation
\* does not exceed that bank; the bank-exhaustion test of the skip check is
\* false, and the skip check returns true exactly when at most 8 s are left
\* and the turn is not high-leverage
C30_SyncedBankCoversAllocation ==
    (/\ tm_call.op \in {"allocate", "skip"}
     /\ tm_call.time_remaining # NoClock
     /\ ~tm_call.team_preview)
    => /\ tm_call.synced[1] >= 3 * min_allocation_ms * tm_call.synced[2]
       /\ tm_call.op = "allocate" =>
            /\ tm_last_time_allocation[1] * tm_call.synced[2]
                  <= tm_call.synced[1] * tm_last_time_allocation[2]
            /\ tm_call.ret * tm_call.synced[2] <= tm_call.synced[1]
       /\ tm_call.op = "skip" =>
            /\ ~(tm_call.synced[1] < 2 * min_allocation_ms * tm_call.synced[2])
            /\ (tm_call.ret = 1) <=>
                  (tm_call.time_remaining <= 8 /\ ~tm_high_leverage_turn)

\* a high-leverage skip check with 5 s left: the bank is at its floor of 225 ms
\* and the search is not skipped
C30_Witness ==
    /\ tm_call.op = "skip"
    /\ tm_call.time_remaining = 5
    /\ tm_call.synced = <<225, 1>>
    /\ tm_high_leverage_turn
    /\ tm_call.ret = 0

====
